---- MODULE Spec2Model ----
(***************************************************************************)
(* A model of the touchctl gesture daemon: the MT-slot tracker             *)
(* (src/src/tracker.rs), the pipeline loop with its grab arbitration       *)
(* (src/src/ipc/pipeline.rs), the gesture detector (src/src/gestures.rs),  *)
(* the dispatcher (src/src/ipc/dispatch.rs) and the control channel of     *)
(* the daemon (src/src/ipc/server.rs, src/src/config.rs).                  *)
(*                                                                         *)
(* Normalized f32 coordinates are kept in fixed point: the value v is the  *)
(* integer v * ONE, ONE = 25600.  With the default range 0..4096 a raw     *)
(* coordinate r that is a multiple of 4 normalizes to r/4096 exactly, i.e. *)
(* to r * 25/4 units; quotients and square roots are rounded down to a     *)
(* unit (1/25600), where f32 rounds to its nearest value.                  *)
(***************************************************************************)
EXTENDS Integers, Sequences, FiniteSets, TLC

\* ------------------------------------------------------------------ bounds
MaxNow == 1
MaxMoved == 2
MaxDevs == 1
MaxEvents == 6
MaxTrkEvents == 5
MaxRequests == 1
MaxEdits == 1
MaxFrameEvents == 10
MaxFrameNow == 2
MaxScrollEvents == 7
MaxErrEvents == 7
MaxLockEvents == 5
MaxSwipeEvents == 6
MaxEpisodeEvents == 9
MaxStatusRequests == 3
MaxChordLen == 2
MaxChords == 2

\* --------------------------------------------------------------- utilities
None == <<>>
Some(x) == <<x>>
IsSome(o) == Len(o) = 1
Get(o) == o[1]

Abs(x) == IF x < 0 THEN -x ELSE x
Clamp(x, lo, hi) == IF x < lo THEN lo ELSE IF x > hi THEN hi ELSE x

\* one normalized unit (1.0) in fixed point; STEP_NORM = 0.010 is 256 units
ONE == 25 * 1024
HALF == ONE \div 2

RECURSIVE ISqrtIn(_, _, _)
ISqrtIn(n, lo, hi) ==
  IF lo >= hi THEN lo
  ELSE LET mid == (lo + hi + 1) \div 2
       IN IF mid * mid <= n THEN ISqrtIn(n, mid, hi) ELSE ISqrtIn(n, lo, mid - 1)
\* floor of the square root, for the Euclidean distance of the span
ISqrt(n) == ISqrtIn(n, 0, 2 * ONE)

\* ================================================================= tracker
NumSlots == 10
x_min == 0
x_max == 4096
y_min == 0
y_max == 4096

SlotIdx == 0 .. (NumSlots - 1)

\* #[derive(Default)] SlotState: every number 0, every flag false
DefaultSlot ==
  [tracking_id |-> 0, x_norm |-> 0, y_norm |-> 0, t_first_ms |-> 0,
   t_last_ms |-> 0, moved_norm |-> 0, last_x_norm |-> 0, last_y_norm |-> 0,
   seen_x |-> FALSE, seen_y |-> FALSE, active |-> FALSE]

TrackerNew ==
  [slots |-> [i \in SlotIdx |-> DefaultSlot], cur_slot |-> 0,
   active_count |-> 0, centroid |-> <<0, 0>>, span |-> 0]

\* ((raw - min) as f32 / (max - min) as f32).clamp(0.0, 1.0)
Normalize(raw, lo, hi) == (Clamp(raw - lo, 0, hi - lo) * ONE) \div (hi - lo)

\* a mutant of on_slot: an index past the last slot wraps to slot 0
OnSlotWrapsMutant(t, slot) ==
  [t EXCEPT !.cur_slot = IF slot < 0 \/ slot > NumSlots - 1 THEN 0 ELSE slot]

on_slot(t, slot) == [t EXCEPT !.cur_slot = Clamp(slot, 0, NumSlots - 1)]

\* a mutant of on_tracking_id: a touchdown on a slot that is already active
\* keeps the time of its first touchdown
TouchdownKeepsFirstMutant(t, tracking_id, now_ms) ==
  LET s == t.slots[t.cur_slot] IN
  IF tracking_id < 0
  THEN [t EXCEPT !.slots[t.cur_slot] =
          [s EXCEPT !.tracking_id = -1, !.active = FALSE, !.t_last_ms = now_ms]]
  ELSE [t EXCEPT !.slots[t.cur_slot] =
          [tracking_id |-> tracking_id, x_norm |-> s.x_norm,
           y_norm |-> s.y_norm,
           t_first_ms |-> IF s.active THEN s.t_first_ms ELSE now_ms,
           t_last_ms |-> now_ms,
           moved_norm |-> 0, last_x_norm |-> s.x_norm,
           last_y_norm |-> s.y_norm, seen_x |-> FALSE, seen_y |-> FALSE,
           active |-> TRUE]]

TouchdownResetsMovedMutant(t, tracking_id, now_ms) ==
  LET s == t.slots[t.cur_slot] IN
  IF tracking_id < 0
  THEN [t EXCEPT !.slots[t.cur_slot] =
          [s EXCEPT !.tracking_id = -1, !.active = FALSE, !.t_last_ms = now_ms]]
  ELSE [t EXCEPT !.slots[t.cur_slot] =
          [s EXCEPT !.tracking_id = tracking_id, !.t_first_ms = now_ms,
                    !.t_last_ms = now_ms, !.last_x_norm = s.x_norm,
                    !.last_y_norm = s.y_norm, !.seen_x = FALSE,
                    !.seen_y = FALSE, !.active = TRUE]]

on_tracking_id(t, tracking_id, now_ms) ==
  LET s == t.slots[t.cur_slot] IN
  IF tracking_id < 0
  THEN [t EXCEPT !.slots[t.cur_slot] =
          [s EXCEPT !.tracking_id = -1, !.active = FALSE, !.t_last_ms = now_ms]]
  ELSE [t EXCEPT !.slots[t.cur_slot] =
          [tracking_id |-> tracking_id, x_norm |-> s.x_norm,
           y_norm |-> s.y_norm, t_first_ms |-> now_ms, t_last_ms |-> now_ms,
           moved_norm |-> 0, last_x_norm |-> s.x_norm,
           last_y_norm |-> s.y_norm, seen_x |-> FALSE, seen_y |-> FALSE,
           active |-> TRUE]]

\* a mutant of on_pos_x: the distance from the old baseline is counted
\* while the baselines are still being set
PosXCountsBeforeBaselineMutant(t, raw, now_ms) ==
  LET nx == Normalize(raw, x_min, x_max)
      s == t.slots[t.cur_slot]
      s1 == IF s.seen_x /\ s.seen_y
            THEN [s EXCEPT !.moved_norm = s.moved_norm + Abs(nx - s.last_x_norm)]
            ELSE [s EXCEPT !.moved_norm = s.moved_norm + Abs(nx - s.last_x_norm),
                           !.last_x_norm = nx, !.seen_x = TRUE]
  IN [t EXCEPT !.slots[t.cur_slot] = [s1 EXCEPT !.x_norm = nx, !.t_last_ms = now_ms]]

on_pos_x(t, raw, now_ms) ==
  LET nx == Normalize(raw, x_min, x_max)
      s == t.slots[t.cur_slot]
      s1 == IF s.seen_x /\ s.seen_y
            THEN [s EXCEPT !.moved_norm = s.moved_norm + Abs(nx - s.last_x_norm)]
            ELSE [s EXCEPT !.last_x_norm = nx, !.seen_x = TRUE]
  IN [t EXCEPT !.slots[t.cur_slot] = [s1 EXCEPT !.x_norm = nx, !.t_last_ms = now_ms]]

on_pos_y(t, raw, now_ms) ==
  LET ny == Normalize(raw, y_min, y_max)
      s == t.slots[t.cur_slot]
      s1 == IF s.seen_x /\ s.seen_y
            THEN [s EXCEPT !.moved_norm = s.moved_norm + Abs(ny - s.last_y_norm)]
            ELSE [s EXCEPT !.last_y_norm = ny, !.seen_y = TRUE]
  IN [t EXCEPT !.slots[t.cur_slot] = [s1 EXCEPT !.y_norm = ny, !.t_last_ms = now_ms]]

\* the slots that pass the filter of on_syn_report, in slot order
RECURSIVE ActiveFrom(_, _)
ActiveFrom(slots, i) ==
  IF i >= NumSlots THEN <<>>
  ELSE IF slots[i].active /\ slots[i].tracking_id >= 0
       THEN <<slots[i]>> \o ActiveFrom(slots, i + 1)
       ELSE ActiveFrom(slots, i + 1)

RECURSIVE SumSeq(_)
SumSeq(q) == IF q = <<>> THEN 0 ELSE Head(q) + SumSeq(Tail(q))

Centroid(act) ==
  IF Len(act) > 0
  THEN << SumSeq([k \in 1 .. Len(act) |-> act[k].x_norm]) \div Len(act),
          SumSeq([k \in 1 .. Len(act) |-> act[k].y_norm]) \div Len(act) >>
  ELSE << HALF, HALF >>

SpanOf(act, c) ==
  IF Len(act) > 0
  THEN SumSeq([k \in 1 .. Len(act) |->
                 ISqrt((act[k].x_norm - c[1]) * (act[k].x_norm - c[1])
                       + (act[k].y_norm - c[2]) * (act[k].y_norm - c[2]))])
         \div Len(act)
  ELSE 0

Snapshot(s, now_ms) ==
  [tracking_id |-> s.tracking_id, x_norm |-> s.x_norm, y_norm |-> s.y_norm,
   moved_norm |-> s.moved_norm, age_ms |-> now_ms - s.t_first_ms]

\* a mutant of the centroid/span step: the idle values are not substituted
SynReportKeepsStaleMutant(t, now_ms) ==
  LET act == ActiveFrom(t.slots, 0)
      c == IF Len(act) > 0 THEN Centroid(act) ELSE t.centroid
      sp == IF Len(act) > 0 THEN SpanOf(act, c) ELSE t.span
  IN [tracker |-> [t EXCEPT !.active_count = Len(act), !.centroid = c, !.span = sp],
      frame |-> [timestamp_ms |-> now_ms, active_count |-> Len(act),
                 centroid |-> c, span |-> sp,
                 slots |-> [k \in 1 .. Len(act) |-> Snapshot(act[k], now_ms)]]]

\* on_syn_report: the tracker after the call and the FrameSummary it returns
on_syn_report(t, now_ms) ==
  LET act == ActiveFrom(t.slots, 0)
      c == Centroid(act)
      sp == SpanOf(act, c)
  IN [tracker |-> [t EXCEPT !.active_count = Len(act), !.centroid = c, !.span = sp],
      frame |-> [timestamp_ms |-> now_ms, active_count |-> Len(act),
                 centroid |-> c, span |-> sp,
                 slots |-> [k \in 1 .. Len(act) |-> Snapshot(act[k], now_ms)]]]

\* ================================================================ detector
TwoFingerDefault ==
  [start_time_ms |-> 0, start_centroid |-> <<0, 0>>, start_span |-> 0,
   armed |-> FALSE, classified |-> FALSE]

\* GestureDetector::new(th): the thresholds are copied into the detector
GestureDetectorNew(th) ==
  [th |-> th, two |-> TwoFingerDefault, three_start_ms |-> None,
   last_two_frame |-> None]

\* a mutant of the three-finger section: a missing start counts as time 0
ThreeFingerNoStartMutant(d, frame) ==
  LET a == frame.active_count
      t0 == IF IsSome(d.three_start_ms) THEN Get(d.three_start_ms) ELSE 0
  IN IF a = 3
     THEN [det |-> IF IsSome(d.three_start_ms) THEN d
                   ELSE [d EXCEPT !.three_start_ms = Some(frame.timestamp_ms)],
           gesture |-> None]
     ELSE IF a = 0
     THEN [det |-> [d EXCEPT !.three_start_ms = None],
           gesture |-> IF frame.timestamp_ms - t0 <= d.th.tap_ms
                       THEN Some("ThreeFingerTap") ELSE None]
     ELSE [det |-> d, gesture |-> None]

\* the three-finger section at the end of update
ThreeFinger(d, frame) ==
  LET a == frame.active_count IN
  IF a = 3
  THEN [det |-> IF IsSome(d.three_start_ms) THEN d
                ELSE [d EXCEPT !.three_start_ms = Some(frame.timestamp_ms)],
        gesture |-> None]
  ELSE IF a = 0 /\ IsSome(d.three_start_ms)
  THEN [det |-> [d EXCEPT !.three_start_ms = None],
        gesture |-> IF frame.timestamp_ms - Get(d.three_start_ms) <= d.th.tap_ms
                    THEN Some("ThreeFingerTap") ELSE None]
  ELSE [det |-> d, gesture |-> None]

\* a mutant of the tap test: the movement of the fingers is not looked at
TapOkIgnoresMovedMutant(d, last2) ==
  /\ Len(last2.slots) = 2
  /\ \A k \in 1 .. Len(last2.slots) : last2.slots[k].age_ms <= d.th.tap_ms

tap_ok(d, last2) ==
  /\ Len(last2.slots) = 2
  /\ \A k \in 1 .. Len(last2.slots) :
        /\ last2.slots[k].age_ms <= d.th.tap_ms
        /\ last2.slots[k].moved_norm <= d.th.move_tol

\* a mutant of the swipe test: a tie between the axes counts as vertical
SwipeTieVerticalMutant(dx, dy, min_dist) ==
  IF Abs(dx) > Abs(dy) /\ Abs(dx) >= min_dist
  THEN Some(IF dx > 0 THEN "TwoFingerSwipeRight" ELSE "TwoFingerSwipeLeft")
  ELSE IF Abs(dy) >= Abs(dx) /\ Abs(dy) >= min_dist
  THEN Some(IF dy > 0 THEN "TwoFingerSwipeDown" ELSE "TwoFingerSwipeUp")
  ELSE None

\* `swipe?` inside the time window: the gesture it returns, if any
SwipeOf(dx, dy, min_dist) ==
  LET ax == Abs(dx)
      ay == Abs(dy)
  IN IF ax >= ay /\ ax >= min_dist
     THEN Some(IF dx > 0 THEN "TwoFingerSwipeRight" ELSE "TwoFingerSwipeLeft")
     ELSE IF ay > ax /\ ay >= min_dist
     THEN Some(IF dy > 0 THEN "TwoFingerSwipeDown" ELSE "TwoFingerSwipeUp")
     ELSE None

\* `pinch?`: the gesture it returns, if any
PinchOf(dspan, pinch_step) ==
  IF Abs(dspan) >= pinch_step
  THEN Some(IF dspan < 0 THEN "PinchScaleIn" ELSE "PinchScaleOut")
  ELSE None

\* a mutant of the order of the two tests: the pinch test runs first
PinchFirstMutant(swipe, pinch) == IF IsSome(pinch) THEN pinch ELSE swipe

\* the swipe test runs first and returns; the pinch test is reached only
\* when no swipe was returned
SwipeThenPinch(swipe, pinch) == IF IsSome(swipe) THEN swipe ELSE pinch

\* a mutant of the classification: the episode is not marked
MarkNothingMutant(d) == d

\* `self.two.classified = true` in front of each swipe and pinch return
MarkClassified(d) == [d EXCEPT !.two.classified = TRUE]

\* the two-finger section of update: the detector after it and the gesture it
\* returns with, if it returns
TwoFingerSection(d, frame) ==
  LET a == frame.active_count IN
  IF a = 2
  THEN LET two == IF d.two.armed THEN d.two
                  ELSE [start_time_ms |-> frame.timestamp_ms,
                        start_centroid |-> frame.centroid,
                        start_span |-> frame.span,
                        armed |-> TRUE, classified |-> FALSE]
           d1 == [d EXCEPT !.two = two, !.last_two_frame = Some(frame)]
           dt == frame.timestamp_ms - two.start_time_ms
           dx == frame.centroid[1] - two.start_centroid[1]
           dy == frame.centroid[2] - two.start_centroid[2]
           dspan == frame.span - two.start_span
           done == MarkClassified(d1)
           swipe == IF dt <= d.th.swipe_max_ms
                    THEN SwipeOf(dx, dy, d.th.swipe_min_dist) ELSE None
           g == SwipeThenPinch(swipe, PinchOf(dspan, d.th.pinch_step))
       IN IF two.classified THEN [det |-> d1, gesture |-> None]
          ELSE IF IsSome(g) THEN [det |-> done, gesture |-> g]
          ELSE [det |-> d1, gesture |-> None]
  ELSE IF d.two.armed
  THEN LET reset == [d EXCEPT !.two = TwoFingerDefault, !.last_two_frame = None]
       IN IF ~d.two.classified /\ IsSome(d.last_two_frame)
             /\ tap_ok(d, Get(d.last_two_frame))
          THEN [det |-> reset, gesture |-> Some("TwoFingerTap")]
          ELSE [det |-> reset, gesture |-> None]
  ELSE [det |-> d, gesture |-> None]

\* a mutant of update: the two-finger section does not return, and the
\* three-finger section runs after it in every case
UpdateNoEarlyReturnMutant(d, frame) ==
  LET t == TwoFingerSection(d, frame)
      h == ThreeFinger(t.det, frame)
  IN [det |-> h.det, gesture |-> t.gesture \o h.gesture]

\* GestureDetector::update: the detector after the call and Option<Gesture>
update(d, frame) ==
  LET t == TwoFingerSection(d, frame)
  IN IF IsSome(t.gesture) THEN t ELSE ThreeFinger(t.det, frame)

\* ================================================================= profiles
\* Thresholds of two valid profiles and of one that fails validation
\* (tap_ms = 0).  Distances are in fixed-point units, durations in ms.
ThresholdsA ==
  [tap_ms |-> 1, hold_ms |-> 1, move_tol |-> 512, swipe_min_dist |-> 3072,
   swipe_max_ms |-> 1, pinch_step |-> 1280]
ThresholdsB ==
  [tap_ms |-> 2, hold_ms |-> 1, move_tol |-> 1024, swipe_min_dist |-> 6400,
   swipe_max_ms |-> 2, pinch_step |-> 2560]

BindingKeys ==
  {"two_finger.tap", "two_finger.swipe_up", "two_finger.swipe_down",
   "two_finger.swipe_left", "two_finger.swipe_right", "pinch.scale_in",
   "pinch.scale_out", "three_finger.tap"}

\* a binding table: the keys the file gives, each with its action string
BindingsA ==
  [k \in {"two_finger.tap", "three_finger.tap"} |->
     IF k = "two_finger.tap" THEN "mouse:right" ELSE "toggle"]
BindingsB ==
  [k \in {"two_finger.tap", "three_finger.tap"} |->
     IF k = "two_finger.tap" THEN "key:CTRL+TAB" ELSE "mouse:middle"]

ProfileA == [allow_commands |-> FALSE, thresholds |-> ThresholdsA, bindings |-> BindingsA]
ProfileB == [allow_commands |-> FALSE, thresholds |-> ThresholdsB, bindings |-> BindingsB]
ProfileBad ==
  [allow_commands |-> FALSE, thresholds |-> [ThresholdsA EXCEPT !.tap_ms = 0],
   bindings |-> BindingsB]

\* a file whose text is not a TOML profile
Unparsable == [text |-> "not toml"]

ProfileNames == {"default", "alt"}
FileContents == {ProfileA, ProfileB, ProfileBad, Unparsable}

ActionPrefixOk(v) ==
  \/ v \in {"mouse:left", "mouse:right", "mouse:middle", "mouse:side"}
  \/ v \in {"scroll:vertical@+1", "scroll:vertical@-1"}
  \/ v \in {"key:CTRL+TAB", "key:CTRL+EQUAL", "key:F1"}
  \/ v = "toggle"

\* validate_profile: Ok(()) or Err
validate_profile(p) ==
  /\ ~(p.thresholds.tap_ms = 0 \/ p.thresholds.hold_ms = 0)
  /\ 0 <= p.thresholds.move_tol /\ p.thresholds.move_tol < ONE
  /\ \A k \in DOMAIN p.bindings :
        /\ k # ""
        /\ p.bindings[k] # ""
        /\ \/ ActionPrefixOk(p.bindings[k])
           \/ p.bindings[k] \in {"cmd:true"}
        /\ (p.bindings[k] \in {"cmd:true"}) => p.allow_commands

\* load_profile(name) against the profile files: Some(profile) or None (Err)
load_profile(files, name) ==
  IF name \notin DOMAIN files \/ files[name] = None THEN None
  ELSE IF files[name] = Some(Unparsable) THEN None
  ELSE IF validate_profile(Get(files[name])) THEN files[name]
  ELSE None

\* a mutant of reload: the profile is assigned before it is validated
ReloadKeepsRejectedMutant(c, files) ==
  LET got == load_profile(files, c.active_name)
      txt == files[c.active_name] IN
  IF IsSome(got) THEN [cfg |-> [c EXCEPT !.profile = Get(got)], ok |-> TRUE]
  ELSE IF IsSome(txt) /\ txt # Some(Unparsable)
  THEN [cfg |-> [c EXCEPT !.profile = Get(txt)], ok |-> FALSE]
  ELSE [cfg |-> c, ok |-> FALSE]

\* DaemonConfigState::reload: the state after the call and whether it is Ok
reload(c, files) ==
  LET got == load_profile(files, c.active_name) IN
  IF IsSome(got) THEN [cfg |-> [c EXCEPT !.profile = Get(got)], ok |-> TRUE]
  ELSE [cfg |-> c, ok |-> FALSE]

\* DaemonConfigState::set_active: the state, the active pointer file, Ok or Err
set_active(c, files, ptr, name) ==
  IF name \notin DOMAIN files \/ files[name] = None
  THEN [cfg |-> c, active_ptr |-> ptr, ok |-> FALSE]
  ELSE LET r == reload([c EXCEPT !.active_name = name], files)
       IN [cfg |-> r.cfg, active_ptr |-> name, ok |-> r.ok]

\* ================================================================ key chords
\* s.trim().to_ascii_uppercase() on the tokens used here
to_ascii_uppercase(tok) ==
  CASE tok = "ctrl" -> "CTRL"
    [] tok = " TAB" -> "TAB"
    [] OTHER -> tok

\* map_key: Some(key) or None (Err: unsupported key token)
map_key(tok) ==
  CASE tok \in {"CTRL", "CONTROL"} -> Some("LeftControl")
    [] tok = "ALT" -> Some("LeftAlt")
    [] tok = "SHIFT" -> Some("LeftShift")
    [] tok \in {"SUPER", "META", "WIN"} -> Some("LeftMeta")
    [] tok = "TAB" -> Some("Tab")
    [] tok \in {"MINUS", "-"} -> Some("Minus")
    [] tok \in {"EQUAL", "="} -> Some("Equal")
    [] OTHER -> None

Reverse(seq) == [i \in 1 .. Len(seq) |-> seq[Len(seq) + 1 - i]]

KeyEvent(k, v) == [key |-> k, value |-> v]
SynEvent == [key |-> "SYN_REPORT", value |-> 0]

\* the device calls of a chord with these keys, in order: the presses, sync,
\* the releases in reverse, sync
ChordCalls(keys) ==
  [i \in 1 .. Len(keys) |-> KeyEvent(keys[i], 1)] \o <<SynEvent>>
  \o [i \in 1 .. Len(keys) |-> KeyEvent(Reverse(keys)[i], 0)] \o <<SynEvent>>

\* UinputSink::key_chord on the split chord `parts`: the events that reached
\* the device and Ok or Err.  linux: the sink has a device (else it is the
\* no-op sink); fail_at: the device call that returns Err (0: none does),
\* which `?` turns into the return value
key_chord(en, linux, parts, fail_at) ==
  IF ~en \/ ~linux THEN [sent |-> <<>>, ok |-> TRUE]
  ELSE LET mapped == [i \in 1 .. Len(parts) |-> map_key(to_ascii_uppercase(parts[i]))]
       IN IF \E i \in 1 .. Len(parts) : mapped[i] = None
          THEN [sent |-> <<>>, ok |-> FALSE]
          ELSE LET calls == ChordCalls([i \in 1 .. Len(parts) |-> Get(mapped[i])])
               IN IF fail_at \in 1 .. Len(calls)
                  THEN [sent |-> SubSeq(calls, 1, fail_at - 1), ok |-> FALSE]
                  ELSE [sent |-> calls, ok |-> TRUE]

\* =============================================================== dispatcher
GestureKey(g) ==
  CASE g = "TwoFingerTap" -> "two_finger.tap"
    [] g = "TwoFingerSwipeUp" -> "two_finger.swipe_up"
    [] g = "TwoFingerSwipeDown" -> "two_finger.swipe_down"
    [] g = "TwoFingerSwipeLeft" -> "two_finger.swipe_left"
    [] g = "TwoFingerSwipeRight" -> "two_finger.swipe_right"
    [] g = "PinchScaleIn" -> "pinch.scale_in"
    [] g = "PinchScaleOut" -> "pinch.scale_out"
    [] g = "ThreeFingerTap" -> "three_finger.tap"

\* p.bindings.get(key).cloned().unwrap_or_default()
BindingOf(p, key) == IF key \in DOMAIN p.bindings THEN p.bindings[key] ELSE ""


\* dispatch_gesture after the lookup: what the sink is asked to do, and
\* whether the call returns Ok
SinkRequest(action) ==
  IF action = "" \/ action = "toggle" THEN [op |-> "none", ok |-> TRUE]
  ELSE IF action \in {"mouse:left", "mouse:right", "mouse:middle"}
  THEN [op |-> action, ok |-> TRUE]
  ELSE IF action = "mouse:side" THEN [op |-> "none", ok |-> FALSE]
  ELSE IF action = "scroll:vertical@+1" THEN [op |-> "wheel:+1", ok |-> TRUE]
  ELSE IF action = "scroll:vertical@-1" THEN [op |-> "wheel:-1", ok |-> TRUE]
  ELSE IF action \in {"key:CTRL+TAB", "key:CTRL+EQUAL"}
  THEN [op |-> action, ok |-> TRUE]
  ELSE IF action = "key:F1" THEN [op |-> "none", ok |-> FALSE]
  ELSE IF action = "cmd:true" THEN [op |-> "none", ok |-> TRUE]
  ELSE [op |-> "none", ok |-> FALSE]

\* dispatch_gesture: UinputSink.enabled after `action` was dispatched (the
\* "toggle" arm returns Ok(()) and calls nothing)
EnabledAfter(en, action) == en

\* ========================================================= scroll integrator
STEP_NORM == 256

\* f32 -> i32 with `as`: truncation toward zero
\* a mutant of the conversion: the quotient is rounded down
FloorDivMutant(a, b) == a \div b

TruncDiv(a, b) == IF a >= 0 THEN a \div b ELSE -((-a) \div b)

\* a mutant of the scroll block: the pinch gate is not applied
ScrollBlockNoGateMutant(acc, prev, fr, th) ==
  IF ~IsSome(prev) THEN [scroll_acc |-> acc, wheel |-> 0]
  ELSE IF fr.active_count = 2
  THEN LET acc1 == acc + (fr.centroid[2] - Get(prev).centroid[2])
           steps == TruncDiv(acc1, STEP_NORM)
       IN IF Abs(steps) >= 1
          THEN [scroll_acc |-> acc1 - steps * STEP_NORM, wheel |-> -steps]
          ELSE [scroll_acc |-> acc1, wheel |-> 0]
  ELSE [scroll_acc |-> 0, wheel |-> 0]

\* a mutant of the scroll block: the steps handed to the sink are not taken
\* off the accumulator
ScrollBlockKeepsAccMutant(acc, prev, fr, th) ==
  IF ~IsSome(prev) THEN [scroll_acc |-> acc, wheel |-> 0]
  ELSE IF fr.active_count = 2
  THEN IF 5 * Abs(fr.span - Get(prev).span) < 3 * th.pinch_step
       THEN LET acc1 == acc + (fr.centroid[2] - Get(prev).centroid[2])
                steps == TruncDiv(acc1, STEP_NORM)
            IN [scroll_acc |-> acc1, wheel |-> -steps]
       ELSE [scroll_acc |-> acc, wheel |-> 0]
  ELSE [scroll_acc |-> 0, wheel |-> 0]

\* a mutant of the scroll block: a frame without two fingers leaves the
\* accumulator alone
ScrollBlockNoResetMutant(acc, prev, fr, th) ==
  IF ~IsSome(prev) THEN [scroll_acc |-> acc, wheel |-> 0]
  ELSE IF fr.active_count = 2
  THEN IF 5 * Abs(fr.span - Get(prev).span) < 3 * th.pinch_step
       THEN LET acc1 == acc + (fr.centroid[2] - Get(prev).centroid[2])
                steps == TruncDiv(acc1, STEP_NORM)
            IN IF Abs(steps) >= 1
               THEN [scroll_acc |-> acc1 - steps * STEP_NORM, wheel |-> -steps]
               ELSE [scroll_acc |-> acc1, wheel |-> 0]
       ELSE [scroll_acc |-> acc, wheel |-> 0]
  ELSE [scroll_acc |-> acc, wheel |-> 0]

\* the continuous-scroll block of the SYN_REPORT branch: the accumulator
\* after it and the wheel steps handed to the sink (0: none)
ScrollBlock(acc, prev, fr, th) ==
  IF ~IsSome(prev) THEN [scroll_acc |-> acc, wheel |-> 0]
  ELSE IF fr.active_count = 2
  THEN IF 5 * Abs(fr.span - Get(prev).span) < 3 * th.pinch_step
       THEN LET acc1 == acc + (fr.centroid[2] - Get(prev).centroid[2])
                steps == TruncDiv(acc1, STEP_NORM)
            IN IF Abs(steps) >= 1
               THEN [scroll_acc |-> acc1 - steps * STEP_NORM, wheel |-> -steps]
               ELSE [scroll_acc |-> acc1, wheel |-> 0]
       ELSE [scroll_acc |-> acc, wheel |-> 0]
  ELSE [scroll_acc |-> 0, wheel |-> 0]

\* ============================================================ grab arbiter
\* the grab-related locals of run_pipeline, as one record:
\* want_grab_next, grabbed, dev_grabbed (the EVIOCGRAB state the calls leave
\* on each opened device) and transitions (grab/ungrab passes this tick)

WantGrabOneFingerMutant(active_count) == active_count >= 1

\* frame.active_count >= 2
WantGrab(active_count) == active_count >= 2

\* the `apply grab/ungrab once` block; oks[d] is whether the call on device d
\* succeeds (its result is discarded by the code)
ApplyGrabOnce(g, oks) ==
  IF IsSome(g.want_grab_next)
  THEN IF Get(g.want_grab_next) /\ ~g.grabbed
       THEN [g EXCEPT !.dev_grabbed = [d \in DOMAIN g.dev_grabbed |->
                                         oks[d] \/ g.dev_grabbed[d]],
                      !.grabbed = TRUE, !.transitions = g.transitions + 1]
       ELSE IF ~Get(g.want_grab_next) /\ g.grabbed
       THEN [g EXCEPT !.dev_grabbed = [d \in DOMAIN g.dev_grabbed |->
                                         ~oks[d] /\ g.dev_grabbed[d]],
                      !.grabbed = FALSE, !.transitions = g.transitions + 1]
       ELSE g
  ELSE g

\* a mutant of the frame handler: the transition is made at once, inside the
\* device iteration
ScheduleGrabInlineMutant(g, active_count, oks) ==
  ApplyGrabOnce([g EXCEPT !.want_grab_next = Some(WantGrab(active_count))], oks)

\* `schedule grab/ungrab after loop`: the frame only records what it wants
ScheduleGrab(g, active_count, oks) ==
  [g EXCEPT !.want_grab_next = Some(WantGrab(active_count))]

\* ------------------------------------------------------------ error policy
\* a mutant of the policy: the error is propagated (`?`) and run_pipeline
\* returns it
PropagateErrMutant(ok, next_pc) == IF ok THEN next_pc ELSE "returned"

\* `if let Err(e) = call { error!(..) }`, `let _ = call`, `if let Ok(..) =
\* call`: where run_pipeline goes on after a call, whatever its result
LogAndContinue(ok, next_pc) == next_pc

\* the calls seen to fail, once `call` returned ok or not
Failed(seen, call, ok) == IF ok THEN seen ELSE seen \cup {call}

\* ==================================================================== state
VARIABLES
  now,              \* the monotonic clock behind now_ms()
  tracker,          \* Tracker
  lastEv,           \* the raw event the tracker was last driven with
  frame,            \* the FrameSummary on_syn_report returned, until it is
                    \* moved into prev_frame
  pc,               \* where run_pipeline is
  devs,             \* how many devices were opened (devs = 1 .. devs)
  dev_i,            \* the device the drain pass is at
  any_event, want_grab_next, grabbed,
  dev_grabbed,      \* per opened device: grabbed by the last grab/ungrab call
  detector, prev_frame, scroll_acc,
  gesture,          \* Some(g) between detector.update and dispatch_gesture
  sink_out,         \* what the sink was last asked to emit
  enabled,          \* UinputSink.enabled
  th,               \* the thresholds clone the scroll block took last
  frame_pc,         \* where the handling of a SYN_REPORT is, statement by
                    \* statement: "event" between two events
  tick,             \* this tick so far: frames, last_ac, wants, grabbed0,
                    \* transitions
  n_events,         \* raw events fetched so far
  proc,             \* "running", or how the process ended
  cfg,              \* DaemonState.cfg of the main thread
  files,            \* the profile files: name -> Some(profile) or None
  active_ptr,       \* the contents of the active-pointer file
  profile,          \* the Profile behind the Arc<Mutex<_>>
  mutex,            \* who holds that mutex: "free" or "main"
  published,        \* the profile of the last update_profile that returned
  main_pc,          \* where the main thread is: "loop", "update", "store"
  rx_req,           \* the IpcMsg queue
  conn,             \* the client connection a worker thread is serving
  last_resp,        \* the response line written last
  last_dispatch,    \* the last dispatch_gesture: what it looked up and saw
  n_req, n_edits,
  scroll_log,       \* totals over the frames so far: steps handed to the sink
                    \* and centroid-y deltas between consecutive frames
  last_err,         \* the device or sink call that returned Err in the
                    \* pipeline's last step, or "none"
  failed_calls,     \* the calls that returned Err so far
  closed,           \* the connection closed last: its request line and the
                    \* response line written to it, if any
  uinput            \* the uinput device as key_chord left it: the events
                    \* sent by the last call, what it returned, calls so far

trackerVars == <<tracker, lastEv, frame>>
pipeVars ==
  <<pc, devs, dev_i, any_event, want_grab_next, grabbed, dev_grabbed, detector,
    prev_frame, scroll_acc, gesture, sink_out, enabled, th, frame_pc, tick,
    last_dispatch>>
daemonVars ==
  <<proc, cfg, files, active_ptr, profile, mutex, published, main_pc, rx_req,
    conn, last_resp, n_req, n_edits>>
logVars == <<scroll_log, last_err, failed_calls, closed>>
vars == <<now, uinput, n_events, trackerVars, pipeVars, daemonVars, logVars>>

ScrollLogNew == [steps |-> 0, net |-> 0, sum_dy |-> 0, abs_dy |-> 0]

TickNew(g) ==
  [frames |-> 0, last_ac |-> 0, wants |-> {}, grabbed0 |-> g, transitions |-> 0]

Init ==
  /\ now = 0
  /\ tracker = TrackerNew
  /\ lastEv = <<"none", 0>>
  /\ frame = None
  /\ pc = "start"
  /\ devs = 0
  /\ dev_i = 0
  /\ any_event = FALSE
  /\ want_grab_next = None
  /\ grabbed = FALSE
  /\ dev_grabbed = <<>>
  /\ detector = GestureDetectorNew(ThresholdsA)
  /\ prev_frame = None
  /\ scroll_acc = 0
  /\ gesture = None
  /\ sink_out = "none"
  /\ enabled = TRUE
  /\ th = None
  /\ frame_pc = "event"
  /\ tick = TickNew(FALSE)
  /\ n_events = 0
  /\ proc = "running"
  /\ cfg = [active_name |-> "default", profile |-> ProfileA]
  /\ files = [n \in ProfileNames |-> IF n = "default" THEN Some(ProfileA)
                                     ELSE Some(ProfileB)]
  /\ active_ptr = "default"
  /\ profile = ProfileA
  /\ mutex = "free"
  /\ published = ProfileA
  /\ main_pc = "loop"
  /\ rx_req = <<>>
  /\ conn = None
  /\ last_resp = None
  /\ last_dispatch = None
  /\ n_req = 0
  /\ scroll_log = ScrollLogNew
  /\ last_err = "none"
  /\ failed_calls = {}
  /\ closed = None
  /\ n_edits = 0
  /\ uinput = [sent |-> <<>>, ret |-> "none", n |-> 0]

\* the clock moves on
Advance ==
  /\ now < MaxNow
  /\ now' = now + 1
  /\ UNCHANGED <<uinput, logVars, n_events, trackerVars, pipeVars, daemonVars>>

\* =========================================== the tracker, driven by raw events
\* event values the kernel may send
SlotInputs == {-1, 0, 12}
TrackingIdInputs == {-1, 7}
RawInputs == {-4, 1024, 5000}

MovedBound(t) == \A i \in SlotIdx : t.slots[i].moved_norm <= MaxMoved * ONE

TrkSlot(v) ==
  /\ n_events < MaxTrkEvents
  /\ n_events' = n_events + 1
  /\ tracker' = on_slot(tracker, v)
  /\ lastEv' = <<"slot", v>>
  /\ UNCHANGED <<logVars, now, uinput, frame, pipeVars, daemonVars>>

TrkTrackingId(v) ==
  /\ n_events < MaxTrkEvents
  /\ n_events' = n_events + 1
  /\ tracker' = on_tracking_id(tracker, v, now)
  /\ lastEv' = <<"tracking_id", v>>
  /\ UNCHANGED <<logVars, now, uinput, frame, pipeVars, daemonVars>>

TrkPosX(v) ==
  /\ n_events < MaxTrkEvents
  /\ n_events' = n_events + 1
  /\ MovedBound(on_pos_x(tracker, v, now))
  /\ tracker' = on_pos_x(tracker, v, now)
  /\ lastEv' = <<"pos_x", v>>
  /\ UNCHANGED <<logVars, now, uinput, frame, pipeVars, daemonVars>>

TrkPosY(v) ==
  /\ n_events < MaxTrkEvents
  /\ n_events' = n_events + 1
  /\ MovedBound(on_pos_y(tracker, v, now))
  /\ tracker' = on_pos_y(tracker, v, now)
  /\ lastEv' = <<"pos_y", v>>
  /\ UNCHANGED <<logVars, now, uinput, frame, pipeVars, daemonVars>>

TrkSynReport ==
  /\ n_events < MaxTrkEvents
  /\ n_events' = n_events + 1
  /\ tracker' = on_syn_report(tracker, now).tracker
  /\ frame' = Some(on_syn_report(tracker, now).frame)
  /\ lastEv' = <<"syn_report", 0>>
  /\ UNCHANGED <<logVars, now, uinput, pipeVars, daemonVars>>

NextTracker ==
  \/ Advance
  \/ \E v \in SlotInputs : TrkSlot(v)
  \/ \E v \in TrackingIdInputs : TrkTrackingId(v)
  \/ \E v \in RawInputs : TrkPosX(v)
  \/ \E v \in RawInputs : TrkPosY(v)
  \/ TrkSynReport

SpecTracker == Init /\ [][NextTracker]_vars

\* ======================================================== the pipeline thread
Running == proc = "running"

\* mutex.lock(): the caller goes on once nobody else holds the mutex
CanLock(m) == m = "free"

\* a mutant of the pipeline's locking: the MutexGuard is bound to a variable
\* that lives to the end of the function
GuardKeptMutant(m) == m

\* the MutexGuard of the pipeline thread goes out of scope: the temporary at
\* the end of `{ profile.lock().unwrap().thresholds.clone() }`, `p` at the
\* end of the block that looks the binding up
DropGuard(m) == "free"

GrabState ==
  [want_grab_next |-> want_grab_next, grabbed |-> grabbed,
   dev_grabbed |-> dev_grabbed, transitions |-> tick.transitions]

\* run_pipeline up to its loop: `found` devices qualify, `opened` of them open
PipelineStart(found, opened) ==
  /\ Running /\ pc = "start"
  /\ opened <= found
  /\ IF opened = 0
     THEN /\ pc' = "idle"
          /\ UNCHANGED <<devs, dev_grabbed, detector>>
     ELSE /\ CanLock(mutex)
          /\ pc' = "top"
          /\ devs' = opened
          /\ dev_grabbed' = [d \in 1 .. opened |-> FALSE]
          /\ detector' = GestureDetectorNew(profile.thresholds)
  /\ UNCHANGED <<logVars, now, uinput, n_events, trackerVars, dev_i, any_event, want_grab_next,
                 grabbed, prev_frame, scroll_acc, gesture, sink_out, enabled, th, frame_pc, tick,
                 last_dispatch, daemonVars>>

\* loop { thread::sleep(1 s) }: nothing is read, nothing leaves the loop
IdleSleep ==
  /\ Running /\ pc = "idle"
  /\ UNCHANGED vars

\* the head of the loop body (after the sleep that ends an empty tick)
TickBegin ==
  /\ Running /\ pc \in {"top", "end"}
  /\ pc' = "drain"
  /\ dev_i' = 1
  /\ any_event' = FALSE
  /\ want_grab_next' = None
  /\ tick' = TickNew(grabbed)
  /\ last_err' = "none"
  /\ UNCHANGED <<scroll_log, failed_calls, closed, now, uinput, n_events, trackerVars, devs, grabbed, dev_grabbed,
                 detector, prev_frame, scroll_acc, gesture, sink_out, enabled, th, frame_pc,
                 last_dispatch, daemonVars>>

\* one ABSOLUTE event of the batch of device dev_i
HandleAbs(max, kind, v) ==
  /\ Running /\ pc = "drain" /\ gesture = None
  /\ n_events < max
  /\ n_events' = n_events + 1
  /\ any_event' = TRUE
  /\ tracker' = CASE kind = "slot" -> on_slot(tracker, v)
                  [] kind = "tracking_id" -> on_tracking_id(tracker, v, now)
                  [] kind = "pos_x" -> on_pos_x(tracker, v, now)
                  [] kind = "pos_y" -> on_pos_y(tracker, v, now)
                  [] OTHER -> tracker
  /\ last_err' = "none"
  /\ UNCHANGED <<scroll_log, failed_calls, closed, now, uinput, lastEv, frame, pc, devs, dev_i, want_grab_next, grabbed,
                 dev_grabbed, detector, prev_frame, scroll_acc, gesture,
                 sink_out, enabled, th, frame_pc, tick, last_dispatch, daemonVars>>

\* a SYN_REPORT event, up to the result of detector.update; emit_ok is
\* whether sink.scroll_vertical returns Ok, should it be called
HandleSyn(max, oks, emit_ok) ==
  /\ Running /\ pc = "drain" /\ gesture = None
  /\ n_events < max
  /\ n_events' = n_events + 1
  /\ any_event' = TRUE
  /\ LET r == on_syn_report(tracker, now)
         fr == r.frame
         g == ScheduleGrab(GrabState, fr.active_count, oks)
         needLock == IsSome(prev_frame) /\ fr.active_count = 2
         sc == ScrollBlock(scroll_acc, prev_frame, fr, profile.thresholds)
         u == update(detector, fr)
         ok == sc.wheel = 0 \/ emit_ok
     IN /\ needLock => CanLock(mutex)
        /\ tracker' = r.tracker
        /\ pc' = LogAndContinue(ok, pc)
        /\ last_err' = IF ok THEN "none" ELSE "scroll"
        /\ failed_calls' = Failed(failed_calls, "scroll", ok)
        /\ want_grab_next' = g.want_grab_next
        /\ grabbed' = g.grabbed
        /\ dev_grabbed' = g.dev_grabbed
        /\ tick' = [frames |-> tick.frames + 1, last_ac |-> fr.active_count,
                    wants |-> tick.wants \cup {fr.active_count >= 2},
                    grabbed0 |-> tick.grabbed0, transitions |-> g.transitions]
        /\ scroll_acc' = sc.scroll_acc
        /\ sink_out' = IF sc.wheel # 0 /\ emit_ok /\ enabled THEN "wheel"
                       ELSE sink_out
        /\ detector' = u.det
        /\ gesture' = u.gesture
        /\ IF IsSome(u.gesture)
           THEN frame' = Some(fr) /\ UNCHANGED prev_frame
           ELSE frame' = None /\ prev_frame' = Some(fr)
  /\ UNCHANGED <<scroll_log, closed, now, uinput, lastEv, devs, dev_i, enabled, th, frame_pc,
                 last_dispatch, daemonVars>>

\* dispatch_gesture for the gesture update returned, then prev_frame = frame;
\* sink_ok is whether the sink call returns Ok, should one be made
DispatchGesture(sink_ok) ==
  /\ Running /\ pc = "drain" /\ IsSome(gesture)
  /\ CanLock(mutex)
  /\ LET key == GestureKey(Get(gesture))
         action == BindingOf(profile, key)
         rq == SinkRequest(action)
         ok == rq.ok /\ (rq.op = "none" \/ sink_ok)
     IN /\ last_dispatch' = Some([gesture |-> Get(gesture), key |-> key,
                                  action |-> action, seen |-> profile,
                                  published |-> published])
        /\ sink_out' = IF rq.op # "none" /\ sink_ok /\ enabled THEN rq.op
                       ELSE sink_out
        /\ enabled' = EnabledAfter(enabled, action)
        /\ pc' = LogAndContinue(ok, pc)
        /\ last_err' = IF ok THEN "none" ELSE "dispatch"
        /\ failed_calls' = Failed(failed_calls, "dispatch", ok)
  /\ prev_frame' = frame
  /\ frame' = None
  /\ gesture' = None
  /\ UNCHANGED <<scroll_log, closed, now, uinput, n_events, tracker, lastEv, devs, dev_i, any_event, th, frame_pc,
                 want_grab_next, grabbed, dev_grabbed, detector, scroll_acc,
                 tick, daemonVars>>

\* the batch of device dev_i is exhausted, or (fetch_ok false) fetch_events
\* returned Err and no event of the device was handled: on to the next
\* device, or past the last one to the grab block.  A failing fetch is taken
\* where the tick has handled no event yet, so that none is the device's.
NextDevice(fetch_ok) ==
  /\ Running /\ pc = "drain" /\ gesture = None
  /\ ~fetch_ok => ~any_event
  /\ IF dev_i < devs
     THEN dev_i' = dev_i + 1 /\ pc' = LogAndContinue(fetch_ok, pc)
     ELSE dev_i' = dev_i /\ pc' = LogAndContinue(fetch_ok, "apply")
  /\ last_err' = IF fetch_ok THEN "none" ELSE "fetch"
  /\ failed_calls' = Failed(failed_calls, "fetch", fetch_ok)
  /\ UNCHANGED <<scroll_log, closed, now, uinput, n_events, trackerVars, devs, any_event, want_grab_next,
                 grabbed, dev_grabbed, detector, prev_frame, scroll_acc,
                 gesture, sink_out, enabled, th, frame_pc, tick, last_dispatch, daemonVars>>

\* the block calls grab() or ungrab() on the devices
GrabCalled(want, g) == IsSome(want) /\ Get(want) # g

\* `apply grab/ungrab once`
ApplyGrab(oks) ==
  /\ Running /\ pc = "apply"
  /\ LET g == ApplyGrabOnce(GrabState, oks)
     IN /\ grabbed' = g.grabbed
        /\ dev_grabbed' = g.dev_grabbed
        /\ tick' = [tick EXCEPT !.transitions = g.transitions]
  /\ pc' = LogAndContinue(~GrabCalled(want_grab_next, grabbed)
                            \/ \A d \in DOMAIN oks : oks[d], "end")
  /\ last_err' = "none"
  /\ UNCHANGED <<scroll_log, failed_calls, closed, now, uinput, n_events, trackerVars, devs, dev_i, any_event,
                 want_grab_next, detector, prev_frame, scroll_acc, gesture,
                 sink_out, enabled, th, frame_pc, last_dispatch, daemonVars>>

\* ================================================= the control channel threads
\* request lines a client may send: `line` is "json" for a line of JSON with
\* the given "op" and "profile", "" for an empty line, or text that is not JSON
ClientOps ==
  {[line |-> "json", op |-> "reload", profile |-> ""],
   [line |-> "json", op |-> "use", profile |-> "alt"],
   [line |-> "json", op |-> "shutdown", profile |-> ""]}

\* serde_json::from_str(&line) and the two req.get(..): Some(request), or
\* None for Err
from_str(req) ==
  IF req.line = "json" THEN Some([op |-> req.op, profile |-> req.profile])
  ELSE None

\* DaemonState::clone_shallow, as far as handle_client reads it
clone_shallow == [enabled |-> TRUE, active_name |-> cfg.active_name]

\* listener.accept() returns a connection: the main thread snapshots its state
\* and spawns the worker (one connection is served at a time)
Accept(max, req) ==
  /\ Running /\ main_pc = "loop"
  /\ conn = None
  /\ n_req < max
  /\ n_req' = n_req + 1
  /\ conn' = Some([req |-> req, st |-> clone_shallow, at |-> "read"])
  /\ UNCHANGED <<logVars, now, uinput, n_events, trackerVars, pipeVars, proc, cfg, files,
                 active_ptr, profile, mutex, published, main_pc, rx_req,
                 last_resp, n_edits>>

\* handle_client on the worker thread, up to its response line; for
\* "shutdown" up to the send on the channel
HandleClient ==
  /\ Running /\ IsSome(conn) /\ Get(conn).at = "read"
  /\ LET c == Get(conn)
         parsed == from_str(c.req)
         \* the line is not empty and parses: the match on op is reached
         matched == c.req.line # "" /\ IsSome(parsed)
         op == IF matched THEN Get(parsed).op ELSE ""
         resp == IF op \in {"reload", "use", "status"}
                 THEN [op |-> op, ok |-> TRUE,
                       active_profile |-> IF op = "use" THEN Get(parsed).profile
                                          ELSE c.st.active_name]
                 ELSE [op |-> op, ok |-> FALSE, error |-> "unknown op"]
     IN /\ rx_req' = CASE op = "reload" -> Append(rx_req, [msg |-> "Reload", name |-> ""])
                       [] op = "use" -> Append(rx_req, [msg |-> "UseProfile",
                                                        name |-> Get(parsed).profile])
                       [] op = "shutdown" -> Append(rx_req, [msg |-> "Shutdown", name |-> ""])
                       [] OTHER -> rx_req
        /\ IF op = "shutdown"
           THEN /\ conn' = Some([c EXCEPT !.at = "exit"])
                /\ UNCHANGED <<last_resp, closed>>
           ELSE /\ conn' = None
                /\ last_resp' = IF matched THEN Some(resp) ELSE last_resp
                /\ closed' = Some([req |-> c.req,
                                   resp |-> IF matched THEN Some(resp) ELSE None])
  /\ UNCHANGED <<scroll_log, last_err, failed_calls, now, uinput, n_events, trackerVars, pipeVars, proc, cfg, files,
                 active_ptr, profile, mutex, published, main_pc, n_req, n_edits>>

\* the rest of the "shutdown" arm: the response, then std::process::exit(0)
WorkerExit ==
  /\ Running /\ IsSome(conn) /\ Get(conn).at = "exit"
  /\ last_resp' = Some([op |-> "shutdown", ok |-> TRUE, active_profile |-> ""])
  /\ closed' = Some([req |-> Get(conn).req,
                     resp |-> Some([op |-> "shutdown", ok |-> TRUE,
                                    active_profile |-> ""])])
  /\ proc' = "exit_worker"
  /\ UNCHANGED <<scroll_log, last_err, failed_calls, now, uinput, n_events, trackerVars, pipeVars, cfg, files, active_ptr,
                 profile, mutex, published, main_pc, rx_req, conn, n_req, n_edits>>

\* one message of `while let Ok(msg) = rx_req.try_recv()`, up to the call of
\* update_profile; Shutdown returns from run_daemon, which ends the process
MainRecv ==
  /\ Running /\ main_pc = "loop"
  /\ rx_req # <<>>
  /\ rx_req' = Tail(rx_req)
  /\ LET m == Head(rx_req) IN
     CASE m.msg = "Reload" ->
            LET r == reload(cfg, files)
            IN /\ cfg' = r.cfg
               /\ main_pc' = IF r.ok THEN "update" ELSE "loop"
               /\ failed_calls' = Failed(failed_calls, "reload", r.ok)
               /\ UNCHANGED <<active_ptr, proc>>
       [] m.msg = "UseProfile" ->
            LET r == set_active(cfg, files, active_ptr, m.name)
            IN /\ cfg' = r.cfg
               /\ active_ptr' = r.active_ptr
               /\ main_pc' = IF r.ok THEN "update" ELSE "loop"
               /\ failed_calls' = Failed(failed_calls, "set_active", r.ok)
               /\ UNCHANGED proc
       [] m.msg = "Shutdown" ->
            /\ proc' = "exit_main"
            /\ UNCHANGED <<cfg, active_ptr, main_pc, failed_calls>>
  /\ UNCHANGED <<scroll_log, last_err, closed, now, uinput, n_events, trackerVars, pipeVars, files, profile, mutex,
                 published, conn, last_resp, n_req, n_edits>>

StoreProfileLostMutant(old, new) == old

\* `*p = new_profile`: what the mutex holds once the assignment is complete
StoreProfile(old, new) == new

\* update_profile: self.profile.lock(), and the assignment under way (a struct
\* assignment is not one store: the thresholds are in place first)
UpdateLock ==
  /\ Running /\ main_pc = "update"
  /\ CanLock(mutex)
  /\ mutex' = "main"
  /\ profile' = [profile EXCEPT !.thresholds = cfg.profile.thresholds]
  /\ main_pc' = "store"
  /\ UNCHANGED <<logVars, now, uinput, n_events, trackerVars, pipeVars, proc, cfg, files,
                 active_ptr, published, rx_req, conn, last_resp, n_req, n_edits>>

\* update_profile: the assignment is complete and the guard is dropped
UpdateStore ==
  /\ Running /\ main_pc = "store"
  /\ profile' = StoreProfile(profile, cfg.profile)
  /\ mutex' = "free"
  /\ published' = cfg.profile
  /\ main_pc' = "loop"
  /\ UNCHANGED <<logVars, now, uinput, n_events, trackerVars, pipeVars, proc, cfg, files,
                 active_ptr, rx_req, conn, last_resp, n_req, n_edits>>

\* the user edits, replaces or deletes a profile file
EditFile(name, content) ==
  /\ Running
  /\ n_edits < MaxEdits
  /\ files[name] # content
  /\ n_edits' = n_edits + 1
  /\ files' = [files EXCEPT ![name] = content]
  /\ UNCHANGED <<logVars, now, uinput, n_events, trackerVars, pipeVars, proc, cfg, active_ptr,
                 profile, mutex, published, main_pc, rx_req, conn, last_resp, n_req>>

\* ============================================================= specification
\* raw events the devices deliver to the pipeline: fingers going down and up
\* on two slots (positions are exercised by SpecTracker)
PipeAbsEvents == {<<"slot", 1>>, <<"tracking_id", 7>>, <<"tracking_id", -1>>}

DevResults == [1 .. devs -> BOOLEAN]

Next ==
  \/ \E found \in 0 .. MaxDevs : \E opened \in 0 .. found : PipelineStart(found, opened)
  \/ IdleSleep
  \/ TickBegin
  \/ \E e \in PipeAbsEvents : HandleAbs(MaxEvents, e[1], e[2])
  \/ \E oks \in DevResults : HandleSyn(MaxEvents, oks, TRUE)
  \/ DispatchGesture(TRUE)
  \/ NextDevice(TRUE)
  \/ \E oks \in DevResults : ApplyGrab(oks)
  \/ \E req \in ClientOps : Accept(MaxRequests, req)
  \/ HandleClient
  \/ WorkerExit
  \/ MainRecv
  \/ UpdateLock
  \/ UpdateStore

\* the daemon: pipeline thread, accept loop, client workers and main loop.
\* The clock stands still here (Advance is not a step of Next): every event
\* of a run falls in one millisecond.
Spec == Init /\ [][Next]_vars

\* the pipeline thread alone: no client connects, no file changes
NextPipeline ==
  \/ Advance
  \/ \E found \in 0 .. MaxDevs : \E opened \in 0 .. found : PipelineStart(found, opened)
  \/ IdleSleep
  \/ TickBegin
  \/ \E e \in PipeAbsEvents : HandleAbs(MaxEvents, e[1], e[2])
  \/ \E oks \in DevResults : HandleSyn(MaxEvents, oks, TRUE)
  \/ DispatchGesture(TRUE)
  \/ NextDevice(TRUE)
  \/ \E oks \in DevResults : ApplyGrab(oks)

SpecPipeline == Init /\ [][NextPipeline]_vars

\* the pipeline thread with device and sink calls that may fail
NextErrors ==
  \/ \E found \in 0 .. MaxDevs : \E opened \in 0 .. found : PipelineStart(found, opened)
  \/ IdleSleep
  \/ TickBegin
  \/ \E e \in PipeAbsEvents : HandleAbs(MaxErrEvents, e[1], e[2])
  \/ \E oks \in DevResults : \E emit_ok \in BOOLEAN : HandleSyn(MaxErrEvents, oks, emit_ok)
  \/ \E sink_ok \in BOOLEAN : DispatchGesture(sink_ok)
  \/ \E fetch_ok \in BOOLEAN : NextDevice(fetch_ok)
  \/ \E oks \in DevResults : ApplyGrab(oks)

SpecErrors == Init /\ [][NextErrors]_vars

\* the control channel beside a user who edits the profile files
FileEdits == {None} \cup {Some(c) : c \in FileContents}

\* the lines clients send: reload, use, an op the daemon does not know, text
\* that is not JSON, and an empty line
ControlLines ==
  {[line |-> "json", op |-> "reload", profile |-> ""],
   [line |-> "json", op |-> "use", profile |-> "alt"],
   [line |-> "json", op |-> "bogus", profile |-> ""],
   [line |-> "{not json", op |-> "", profile |-> ""],
   [line |-> "", op |-> "", profile |-> ""]}

NextControl ==
  \/ \E n \in ProfileNames : \E c \in FileEdits : EditFile(n, c)
  \/ \E req \in ControlLines : Accept(MaxRequests, req)
  \/ HandleClient
  \/ MainRecv
  \/ UpdateLock
  \/ UpdateStore

SpecControl == Init /\ [][NextControl]_vars

\* the sink is handed chords of up to MaxChordLen tokens; any one of the
\* device calls of a chord may fail
ChordTokens == {"ctrl", "SHIFT", " TAB", "F1"}
ChordParts == UNION {[1 .. n -> ChordTokens] : n \in 1 .. MaxChordLen}

\* sink.key_chord(rest.trim()), as dispatch_gesture calls it for a "key:"
\* binding
KeyChord(parts, linux, fail_at) ==
  /\ uinput.n < MaxChords
  /\ fail_at <= 2 * Len(parts) + 2
  /\ LET r == key_chord(enabled, linux, parts, fail_at)
     IN uinput' = [sent |-> r.sent, ret |-> IF r.ok THEN "ok" ELSE "err",
                   n |-> uinput.n + 1]
  /\ UNCHANGED <<now, n_events, trackerVars, pipeVars, daemonVars, logVars>>

NextChord ==
  \/ \E parts \in ChordParts : \E linux \in BOOLEAN :
        \E fail_at \in 0 .. 2 * MaxChordLen + 2 : KeyChord(parts, linux, fail_at)

SpecChord == Init /\ [][NextChord]_vars

\* clients that switch the profile and ask for the status, one connection
\* after the other
StatusLines ==
  {[line |-> "json", op |-> "use", profile |-> "alt"],
   [line |-> "json", op |-> "use", profile |-> "default"],
   [line |-> "json", op |-> "reload", profile |-> ""],
   [line |-> "json", op |-> "status", profile |-> ""]}

NextStatus ==
  \/ \E req \in StatusLines : Accept(MaxStatusRequests, req)
  \/ HandleClient
  \/ MainRecv
  \/ UpdateLock
  \/ UpdateStore

SpecStatus == Init /\ [][NextStatus]_vars

\* ================================== the frame path, driven by finger contacts
\* What run_pipeline does with the events of one device between two
\* SYN_REPORTs and with the SYN_REPORT itself (tracker, scroll block, detector,
\* dispatch, prev_frame), apart from the grab bookkeeping.  A contact reaches
\* the tracker as the kernel reports it: ABS_MT_SLOT, then the slot's values.
\* Each action takes the number of events the run may hold (max).

\* a finger lands: ABS_MT_SLOT, ABS_MT_TRACKING_ID >= 0, both positions
FingerDownAt(t, s, x, y, now_ms) ==
  on_pos_y(on_pos_x(on_tracking_id(on_slot(t, s), 7, now_ms), x, now_ms),
           y, now_ms)

\* a finger lifts: ABS_MT_SLOT, ABS_MT_TRACKING_ID = -1
FingerUpAt(t, s, now_ms) == on_tracking_id(on_slot(t, s), -1, now_ms)

\* a finger moves along one axis: ABS_MT_SLOT, ABS_MT_POSITION_X or _Y
FingerMoveAt(t, s, axis, raw, now_ms) ==
  IF axis = "x" THEN on_pos_x(on_slot(t, s), raw, now_ms)
  ELSE on_pos_y(on_slot(t, s), raw, now_ms)

FingerDown(max, s, x, y) ==
  /\ frame_pc = "event"
  /\ n_events < max
  /\ ~tracker.slots[s].active
  /\ \A j \in 0 .. s - 1 : tracker.slots[j].active
  /\ n_events' = n_events + 1
  /\ tracker' = FingerDownAt(tracker, s, x, y, now)
  /\ lastEv' = <<"contact", 0>>
  /\ UNCHANGED <<logVars, now, uinput, frame, pipeVars, daemonVars>>

FingerUp(max, s) ==
  /\ frame_pc = "event"
  /\ n_events < max
  /\ tracker.slots[s].active
  /\ n_events' = n_events + 1
  /\ tracker' = FingerUpAt(tracker, s, now)
  /\ lastEv' = <<"contact", 0>>
  /\ UNCHANGED <<logVars, now, uinput, frame, pipeVars, daemonVars>>

FingerMove(max, s, axis, raw) ==
  /\ frame_pc = "event"
  /\ n_events < max
  /\ tracker.slots[s].active
  /\ MovedBound(FingerMoveAt(tracker, s, axis, raw, now))
  /\ n_events' = n_events + 1
  /\ tracker' = FingerMoveAt(tracker, s, axis, raw, now)
  /\ lastEv' = <<"contact", 0>>
  /\ UNCHANGED <<logVars, now, uinput, frame, pipeVars, daemonVars>>

\* the totals after a frame that handed `wheel` steps to the sink and whose
\* centroid is dy below the previous frame's
ScrollLogAdd(log, wheel, dy) ==
  [steps |-> log.steps + Abs(wheel), net |-> log.net + wheel,
   sum_dy |-> log.sum_dy + dy, abs_dy |-> log.abs_dy + Abs(dy)]

\* SYN_REPORT: the frame, the scroll block, detector.update, the dispatch of
\* its gesture, prev_frame = Some(frame)
FrameSyn(max) ==
  /\ frame_pc = "event"
  /\ n_events < max
  /\ n_events' = n_events + 1
  /\ LET r == on_syn_report(tracker, now)
         fr == r.frame
         sc == ScrollBlock(scroll_acc, prev_frame, fr, profile.thresholds)
         u == update(detector, fr)
         dy == IF IsSome(prev_frame)
               THEN fr.centroid[2] - Get(prev_frame).centroid[2] ELSE 0
         req == IF IsSome(u.gesture)
                THEN SinkRequest(BindingOf(profile, GestureKey(Get(u.gesture)))).op
                ELSE "none"
     IN /\ ((IsSome(prev_frame) /\ fr.active_count = 2) \/ IsSome(u.gesture))
             => CanLock(mutex)
        /\ tracker' = r.tracker
        /\ frame' = Some(fr)
        /\ scroll_acc' = sc.scroll_acc
        /\ detector' = u.det
        /\ gesture' = u.gesture
        /\ sink_out' = IF req # "none" /\ enabled THEN req
                       ELSE IF sc.wheel # 0 /\ enabled THEN "wheel"
                       ELSE sink_out
        /\ enabled' = IF IsSome(u.gesture)
                      THEN EnabledAfter(enabled,
                             BindingOf(profile, GestureKey(Get(u.gesture))))
                      ELSE enabled
        /\ scroll_log' = ScrollLogAdd(scroll_log, sc.wheel, dy)
        /\ prev_frame' = Some(fr)
  /\ lastEv' = <<"syn_report", 0>>
  /\ UNCHANGED <<now, uinput, pc, devs, dev_i, any_event, want_grab_next, grabbed,
                 dev_grabbed, tick, last_dispatch, daemonVars, last_err, failed_calls, closed,
                 th, frame_pc>>

\* time passes between two events: longer than tap_ms and swipe_max_ms of
\* the default profile
FrameGaps == {2}

TimePasses(d) ==
  /\ now + d <= MaxFrameNow
  /\ now' = now + d
  /\ UNCHANGED <<uinput, logVars, n_events, trackerVars, pipeVars, daemonVars>>

\* contacts for the detector: up to three fingers landing on the centre of
\* the pad, the first of them moving right by 1/4 of the pad
DetSlots == {0, 1, 2}
DetMoves == {3072}

NextDetector ==
  \/ \E d \in FrameGaps : TimePasses(d)
  \/ \E s \in DetSlots : FingerDown(MaxFrameEvents, s, 2048, 2048)
  \/ \E s \in DetSlots : FingerUp(MaxFrameEvents, s)
  \/ \E raw \in DetMoves : FingerMove(MaxFrameEvents, 0, "x", raw)
  \/ FrameSyn(MaxFrameEvents)

SpecDetector == Init /\ [][NextDetector]_vars

\* two fingers that land together or apart and move along both axes, in
\* both directions
SwipeSlots == {0, 1}
SwipeDownX == {2048, 3072}
SwipeMoves == {1024, 3072}

NextSwipe ==
  \/ \E d \in FrameGaps : TimePasses(d)
  \/ \E s \in SwipeSlots : \E x \in SwipeDownX : FingerDown(MaxSwipeEvents, s, x, 2048)
  \/ \E s \in SwipeSlots : FingerUp(MaxSwipeEvents, s)
  \/ \E axis \in {"x", "y"} : \E raw \in SwipeMoves :
        FingerMove(MaxSwipeEvents, 0, axis, raw)
  \/ FrameSyn(MaxSwipeEvents)

SpecSwipe == Init /\ [][NextSwipe]_vars

\* two fingers that land, lift and land again at another place, frame after
\* frame: two-finger episodes from arming to reset
NextEpisode ==
  \/ \E d \in FrameGaps : TimePasses(d)
  \/ \E s \in SwipeSlots : \E x \in SwipeDownX : FingerDown(MaxEpisodeEvents, s, x, 2048)
  \/ \E s \in SwipeSlots : FingerUp(MaxEpisodeEvents, s)
  \/ FrameSyn(MaxEpisodeEvents)

SpecEpisode == Init /\ [][NextEpisode]_vars

\* contacts for the scroll block: two fingers landing at mid width, level
\* with the centre or 1/8 of the pad below it; the first of them then moving
\* to 1/32 or 1/8 of the pad below the centre, or back level with it.
\* Meanwhile a client may switch the daemon to the other profile.
ScrSlots == {0, 1}
ScrDownY == {2048, 2560}
ScrMoveY == {2048, 2176, 2560}

NextScroll ==
  \/ \E s \in ScrSlots : \E y \in ScrDownY : FingerDown(MaxScrollEvents, s, 2048, y)
  \/ \E s \in ScrSlots : FingerUp(MaxScrollEvents, s)
  \/ \E raw \in ScrMoveY : FingerMove(MaxScrollEvents, 0, "y", raw)
  \/ FrameSyn(MaxScrollEvents)
  \/ Accept(MaxRequests, [line |-> "json", op |-> "use", profile |-> "alt"])
  \/ HandleClient
  \/ MainRecv
  \/ UpdateLock
  \/ UpdateStore

SpecScroll == Init /\ [][NextScroll]_vars

\* ============================ a SYN_REPORT, one statement of the code at a time
\* The handling of a frame with the profile mutex taken and released where
\* the code does, beside the main thread's update_profile.

\* tracker.on_syn_report(), want_grab_next, and the tests that lead into the
\* scroll block
SynReport(max) ==
  /\ frame_pc = "event"
  /\ n_events < max
  /\ n_events' = n_events + 1
  /\ LET r == on_syn_report(tracker, now)
         fr == r.frame
         dy == IF IsSome(prev_frame)
               THEN fr.centroid[2] - Get(prev_frame).centroid[2] ELSE 0
     IN /\ tracker' = r.tracker
        /\ frame' = Some(fr)
        /\ want_grab_next' = Some(WantGrab(fr.active_count))
        /\ scroll_log' = ScrollLogAdd(scroll_log, 0, dy)
        /\ IF IsSome(prev_frame) /\ fr.active_count = 2
           THEN frame_pc' = "th_clone" /\ UNCHANGED scroll_acc
           ELSE /\ frame_pc' = "update"
                /\ scroll_acc' = IF IsSome(prev_frame) THEN 0 ELSE scroll_acc
  /\ lastEv' = <<"syn_report", 0>>
  /\ UNCHANGED <<now, uinput, pc, devs, dev_i, any_event, grabbed, dev_grabbed, detector,
                 prev_frame, gesture, sink_out, enabled, th, tick, last_dispatch,
                 daemonVars, last_err, failed_calls, closed>>

\* profile.lock().unwrap().thresholds.clone(): the guard is held
ThClone ==
  /\ frame_pc = "th_clone"
  /\ CanLock(mutex)
  /\ mutex' = "pipe"
  /\ th' = Some(profile.thresholds)
  /\ frame_pc' = "th_drop"
  /\ UNCHANGED <<logVars, now, uinput, n_events, trackerVars, pc, devs, dev_i, any_event,
                 want_grab_next, grabbed, dev_grabbed, detector, prev_frame,
                 scroll_acc, gesture, sink_out, enabled, tick, last_dispatch,
                 proc, cfg, files, active_ptr, profile, published, main_pc,
                 rx_req, conn, last_resp, n_req, n_edits>>

\* the end of the block that took the clone
ThDrop ==
  /\ frame_pc = "th_drop"
  /\ mutex' = DropGuard(mutex)
  /\ frame_pc' = "scroll"
  /\ UNCHANGED <<logVars, now, uinput, n_events, trackerVars, pc, devs, dev_i, any_event,
                 want_grab_next, grabbed, dev_grabbed, detector, prev_frame,
                 scroll_acc, gesture, sink_out, enabled, th, tick, last_dispatch,
                 proc, cfg, files, active_ptr, profile, published, main_pc,
                 rx_req, conn, last_resp, n_req, n_edits>>

\* the pinch gate, the accumulator and sink.scroll_vertical
ScrollEmit ==
  /\ frame_pc = "scroll"
  /\ LET sc == ScrollBlock(scroll_acc, prev_frame, Get(frame), Get(th))
     IN /\ scroll_acc' = sc.scroll_acc
        /\ sink_out' = IF sc.wheel # 0 /\ enabled THEN "wheel" ELSE sink_out
        /\ scroll_log' = ScrollLogAdd(scroll_log, sc.wheel, 0)
  /\ frame_pc' = "update"
  /\ UNCHANGED <<now, uinput, n_events, trackerVars, pc, devs, dev_i, any_event,
                 want_grab_next, grabbed, dev_grabbed, detector, prev_frame,
                 gesture, enabled, th, tick, last_dispatch, daemonVars,
                 last_err, failed_calls, closed>>

\* detector.update(&frame, ..)
DetectorUpdate ==
  /\ frame_pc = "update"
  /\ LET u == update(detector, Get(frame))
     IN /\ detector' = u.det
        /\ gesture' = u.gesture
        /\ frame_pc' = IF IsSome(u.gesture) THEN "lookup" ELSE "done"
  /\ UNCHANGED <<logVars, now, uinput, n_events, trackerVars, pc, devs, dev_i, any_event,
                 want_grab_next, grabbed, dev_grabbed, prev_frame, scroll_acc,
                 sink_out, enabled, th, tick, last_dispatch, daemonVars>>

\* dispatch_gesture: profile_arc.lock() and the lookup of the binding
DispatchLookup ==
  /\ frame_pc = "lookup"
  /\ CanLock(mutex)
  /\ mutex' = "pipe"
  /\ LET key == GestureKey(Get(gesture))
     IN last_dispatch' = Some([gesture |-> Get(gesture), key |-> key,
                               action |-> BindingOf(profile, key),
                               seen |-> profile, published |-> published])
  /\ frame_pc' = "lookup_drop"
  /\ UNCHANGED <<logVars, now, uinput, n_events, trackerVars, pc, devs, dev_i, any_event,
                 want_grab_next, grabbed, dev_grabbed, detector, prev_frame,
                 scroll_acc, gesture, sink_out, enabled, th, tick,
                 proc, cfg, files, active_ptr, profile, published, main_pc,
                 rx_req, conn, last_resp, n_req, n_edits>>

\* dispatch_gesture: the end of the block that holds `p`
DispatchDrop ==
  /\ frame_pc = "lookup_drop"
  /\ mutex' = DropGuard(mutex)
  /\ frame_pc' = "sink"
  /\ UNCHANGED <<logVars, now, uinput, n_events, trackerVars, pc, devs, dev_i, any_event,
                 want_grab_next, grabbed, dev_grabbed, detector, prev_frame,
                 scroll_acc, gesture, sink_out, enabled, th, tick, last_dispatch,
                 proc, cfg, files, active_ptr, profile, published, main_pc,
                 rx_req, conn, last_resp, n_req, n_edits>>

\* dispatch_gesture: the call of the sink for the action looked up
DispatchSink ==
  /\ frame_pc = "sink"
  /\ LET action == Get(last_dispatch).action
         rq == SinkRequest(action)
     IN /\ sink_out' = IF rq.op # "none" /\ enabled THEN rq.op ELSE sink_out
        /\ enabled' = EnabledAfter(enabled, action)
  /\ frame_pc' = "done"
  /\ UNCHANGED <<logVars, now, uinput, n_events, trackerVars, pc, devs, dev_i, any_event,
                 want_grab_next, grabbed, dev_grabbed, detector, prev_frame,
                 scroll_acc, gesture, th, tick, last_dispatch, daemonVars>>

\* prev_frame = Some(frame)
FrameDone ==
  /\ frame_pc = "done"
  /\ prev_frame' = frame
  /\ frame_pc' = "event"
  /\ UNCHANGED <<logVars, now, uinput, n_events, trackerVars, pc, devs, dev_i, any_event,
                 want_grab_next, grabbed, dev_grabbed, detector, scroll_acc,
                 gesture, sink_out, enabled, th, tick, last_dispatch, daemonVars>>

\* the batch is exhausted: `apply grab/ungrab once`, and want_grab_next =
\* None at the head of the loop
GrabOnce(oks) ==
  /\ frame_pc = "event"
  /\ IsSome(want_grab_next)
  /\ LET g == ApplyGrabOnce(GrabState, oks)
     IN /\ grabbed' = g.grabbed
        /\ dev_grabbed' = g.dev_grabbed
  /\ want_grab_next' = None
  /\ UNCHANGED <<logVars, now, uinput, n_events, trackerVars, pc, devs, dev_i, any_event,
                 detector, prev_frame, scroll_acc, gesture, sink_out, enabled,
                 th, frame_pc, tick, last_dispatch, daemonVars>>

LockMoveY == {2176}

NextLock ==
  \/ \E s \in ScrSlots : FingerDown(MaxLockEvents, s, 2048, 2048)
  \/ \E s \in ScrSlots : FingerUp(MaxLockEvents, s)
  \/ \E raw \in LockMoveY : FingerMove(MaxLockEvents, 0, "y", raw)
  \/ SynReport(MaxLockEvents)
  \/ ThClone
  \/ ThDrop
  \/ ScrollEmit
  \/ DetectorUpdate
  \/ DispatchLookup
  \/ DispatchDrop
  \/ DispatchSink
  \/ FrameDone
  \/ \E oks \in DevResults : GrabOnce(oks)
  \/ Accept(MaxRequests, [line |-> "json", op |-> "use", profile |-> "alt"])
  \/ HandleClient
  \/ MainRecv
  \/ UpdateLock
  \/ UpdateStore

SpecLock == Init /\ [][NextLock]_vars

\* =================================================================== claims

\* ---- C1 (SpecPipeline): at the end of a tick that processed at least one
\* SYN_REPORT frame, grabbed holds iff the last frame of the tick had
\* active_count >= 2; at the end of a tick that processed no frame, grabbed
\* is what it was when the tick began.
C1_GrabbedIffLastFrame ==
  pc = "end" =>
    IF tick.frames > 0 THEN (grabbed <=> tick.last_ac >= 2)
    ELSE grabbed = tick.grabbed0

\* a tick ends released whose frames went from two fingers down to fewer
C1_Witness ==
  /\ pc = "end" /\ tick.frames >= 2 /\ tick.last_ac < 2
  /\ TRUE \in tick.wants /\ ~grabbed

\* ---- C2 (SpecPipeline): in one tick at most one grab transition (one grab
\* of all devices, or one ungrab of all devices) is applied, however many
\* frames the tick processed and whatever they wanted.
C2_AtMostOneTransitionPerTick == tick.transitions <= 1

\* a tick whose frames wanted both states made exactly one transition
C2_Witness ==
  /\ pc = "end" /\ tick.wants = {TRUE, FALSE} /\ tick.transitions = 1

\* ---- C3 (SpecPipeline): the grab state (the flag, the devices, the count
\* of transitions) changes only in the step taken after the drain pass has
\* gone past the last device; handling an event or a frame never changes it.
C3_GrabOnlyAfterDrain ==
  [][(/\ pc # "start"
      /\ \/ grabbed' # grabbed
         \/ dev_grabbed' # dev_grabbed
         \/ tick'.transitions > tick.transitions)
     => (pc = "apply" /\ dev_i = devs /\ gesture = None)]_vars

\* a grab was made after a drain pass that saw a two-finger frame
C3_Witness ==
  /\ pc = "end" /\ grabbed /\ tick.transitions = 1 /\ tick.frames >= 1
  /\ \E d \in DOMAIN dev_grabbed : dev_grabbed[d]

\* ---- C4 (Spec): once the process has ended on a shutdown request, no opened
\* device is left grabbed (each was ungrabbed before the exit).
C4_ExitLeavesNoGrab ==
  proc # "running" => \A d \in DOMAIN dev_grabbed : ~dev_grabbed[d]

\* ---- C5 (Spec): the process does not end on a shutdown request before
\* run_pipeline has returned: the pipeline saw the request and left its loop.
C5_PipelineReturnsOnShutdown == proc # "running" => pc = "returned"

\* ---- C6 (Spec): a shutdown request takes the pipeline out of its idle loop:
\* when the process has ended, the pipeline is no longer in that loop.
C6_IdleLoopLeftOnShutdown == proc # "running" => pc # "idle"

\* ---- C7 (Spec): every frame is classified with the thresholds of the profile
\* published last: at each step that processes a frame the detector's
\* thresholds are those of the last completed update_profile.
C7_FramesUsePublishedThresholds ==
  [][tick'.frames = tick.frames + 1 => detector.th = published.thresholds]_vars

\* ---- C8 (Spec): every dispatch reads one whole profile, the one the last
\* completed update_profile stored, and takes the gesture's action from its
\* binding table.
C8_DispatchUsesPublishedBindings ==
  IsSome(last_dispatch) =>
    /\ Get(last_dispatch).seen = Get(last_dispatch).published
    /\ Get(last_dispatch).action =
         BindingOf(Get(last_dispatch).published, Get(last_dispatch).key)

\* a tap dispatched after the switch to the other profile used its binding
C8_Witness ==
  /\ IsSome(last_dispatch)
  /\ Get(last_dispatch).published = ProfileB
  /\ Get(last_dispatch).action = "key:CTRL+TAB"

\* ---- C9 (SpecTracker): an event lowers a slot's moved_norm only when it is
\* a touchdown (on_tracking_id(id), id >= 0) on that slot, so moved_norm never
\* decreases within a touch; and right after every touchdown the addressed
\* slot has moved_norm = 0, whether or not it was active before.
IsTouchdownStep ==
  /\ n_events' = n_events + 1
  /\ lastEv'[1] = "tracking_id" /\ lastEv'[2] >= 0

C9_MovedMonotoneUntilTouchdown ==
  [][/\ \A i \in SlotIdx :
          tracker'.slots[i].moved_norm < tracker.slots[i].moved_norm
            => (IsTouchdownStep /\ i = tracker.cur_slot)
     /\ IsTouchdownStep => tracker'.slots[tracker.cur_slot].moved_norm = 0]_vars

\* an active slot has accumulated movement past both baselines
C9_Witness ==
  /\ lastEv[1] \in {"pos_x", "pos_y"}
  /\ \E i \in SlotIdx :
        tracker.slots[i].active /\ tracker.slots[i].moved_norm > 0

\* ---- C10 (SpecTracker): a frame emitted with active_count = 0 has centroid
\* (0.5, 0.5), span 0 and no slot snapshots.
C10_EmptyFrameIsCentered ==
  (IsSome(frame) /\ Get(frame).active_count = 0) =>
    /\ Get(frame).centroid = <<HALF, HALF>>
    /\ Get(frame).span = 0
    /\ Get(frame).slots = <<>>

\* an empty frame emitted while a released slot still holds a position
C10_Witness ==
  /\ IsSome(frame) /\ Get(frame).active_count = 0 /\ lastEv[1] = "syn_report"
  /\ \E i \in SlotIdx :
        /\ tracker.slots[i].tracking_id = -1
        /\ tracker.slots[i].x_norm > 0

\* a step that handles a SYN_REPORT on the frame path: frame' is the frame,
\* detector the detector as update finds it, gesture' what update returns
IsFrameStep ==
  /\ n_events' = n_events + 1
  /\ lastEv'[1] = "syn_report"
  /\ IsSome(frame')

\* ---- C11 (SpecDetector): a frame yields TwoFingerTap exactly when it has
\* active_count # 2, finds the detector armed and not classified, and the
\* latched two-finger frame has two snapshots, each with age_ms <= tap_ms and
\* moved_norm <= move_tol (the detector's thresholds).
C11_TapIffLatchedFrameQualifies ==
  [][IsFrameStep =>
       ((gesture' = Some("TwoFingerTap")) <=>
          (/\ Get(frame').active_count # 2
           /\ detector.two.armed /\ ~detector.two.classified
           /\ IsSome(detector.last_two_frame)
           /\ Len(Get(detector.last_two_frame).slots) = 2
           /\ \A k \in 1 .. 2 :
                 /\ Get(detector.last_two_frame).slots[k].age_ms
                      <= detector.th.tap_ms
                 /\ Get(detector.last_two_frame).slots[k].moved_norm
                      <= detector.th.move_tol))]_vars

\* two fingers landed and one or both lifted at once: a tap
C11_Witness ==
  /\ lastEv[1] = "syn_report" /\ gesture = Some("TwoFingerTap")
  /\ Get(frame).active_count < 2 /\ ~detector.two.armed

\* ---- C12 (SpecDetector): a frame with active_count # 2 that finds the
\* detector armed and not classified, and the latched two-finger frame failing
\* the tap criteria, yields no gesture.
C12_FailedTapYieldsNothing ==
  [][(/\ IsFrameStep
      /\ Get(frame').active_count # 2
      /\ detector.two.armed /\ ~detector.two.classified
      /\ IsSome(detector.last_two_frame)
      /\ \E k \in 1 .. Len(Get(detector.last_two_frame).slots) :
            \/ Get(detector.last_two_frame).slots[k].age_ms > detector.th.tap_ms
            \/ Get(detector.last_two_frame).slots[k].moved_norm
                 > detector.th.move_tol)
     => gesture' = None]_vars

\* ---- C13 (SpecDetector): a frame yields at most one gesture, so at most one
\* dispatch_gesture call, also when the two-finger section and the
\* three-finger section both have a gesture to give.
C13_AtMostOneGesturePerFrame == Len(gesture) <= 1

\* a frame without fingers completed a two-finger tap while a three-finger
\* tap was pending: one gesture, the pending start left in place
C13_Witness ==
  /\ lastEv[1] = "syn_report" /\ gesture = Some("TwoFingerTap")
  /\ Get(frame).active_count = 0
  /\ IsSome(detector.three_start_ms)
  /\ Get(frame).timestamp_ms - Get(detector.three_start_ms) <= detector.th.tap_ms

\* ---- C14 as stated (SpecDetector): every frame yields a gesture.
C14_EveryFrameYieldsGesture ==
  (lastEv[1] = "syn_report" /\ IsSome(frame)) => IsSome(gesture)

\* ---- C14 as amended (SpecDetector): a frame yields no gesture or one; a
\* swipe or pinch only with active_count = 2 in an episode not yet
\* classified, a TwoFingerTap only with active_count # 2 on an armed
\* detector, a ThreeFingerTap only with active_count = 0 and a three-finger
\* start pending; any other frame yields none.
C14_GestureOnlyWhenClassified ==
  [][IsFrameStep =>
       \/ gesture' = None
       \/ /\ gesture' \in {Some("TwoFingerSwipeRight"), Some("TwoFingerSwipeLeft"),
                           Some("TwoFingerSwipeDown"), Some("TwoFingerSwipeUp"),
                           Some("PinchScaleIn"), Some("PinchScaleOut")}
          /\ Get(frame').active_count = 2
          /\ ~(detector.two.armed /\ detector.two.classified)
       \/ /\ gesture' = Some("TwoFingerTap")
          /\ Get(frame').active_count # 2
          /\ detector.two.armed
       \/ /\ gesture' = Some("ThreeFingerTap")
          /\ Get(frame').active_count = 0
          /\ IsSome(detector.three_start_ms)]_vars

\* the frame that arms the detector yields nothing
C14_Witness ==
  /\ lastEv[1] = "syn_report" /\ gesture = None
  /\ Get(frame).active_count = 2
  /\ detector.two.armed /\ ~detector.two.classified

\* ---- C15 (SpecScroll): a frame with active_count = 2 whose previous frame
\* had another active_count leaves scroll_acc as it was and hands no scroll
\* step to the sink.
C15_ScrollNeedsTwoFingerPrev ==
  [][(/\ IsFrameStep
      /\ Get(frame').active_count = 2
      /\ IsSome(prev_frame)
      /\ Get(prev_frame).active_count # 2)
     => (scroll_acc' = scroll_acc /\ scroll_log'.steps = scroll_log.steps)]_vars

\* ---- C16 as stated (SpecScroll): a frame whose span differs from the
\* previous frame's by at least 0.6 * pinch_step (of the published profile)
\* hands no scroll step to the sink and leaves scroll_acc as it was.
C16_GatedFrameLeavesAcc ==
  [][(/\ IsFrameStep
      /\ IsSome(prev_frame)
      /\ 5 * Abs(Get(frame').span - Get(prev_frame).span)
           >= 3 * published.thresholds.pinch_step)
     => (scroll_log'.steps = scroll_log.steps /\ scroll_acc' = scroll_acc)]_vars

\* ---- C16 as amended (SpecScroll): such a frame hands no scroll step to the
\* sink; it leaves scroll_acc as it was when it has active_count = 2 and
\* resets it to 0 when it has any other active_count.
C16_GatedFrameEmitsNothing ==
  [][(/\ IsFrameStep
      /\ IsSome(prev_frame)
      /\ 5 * Abs(Get(frame').span - Get(prev_frame).span)
           >= 3 * published.thresholds.pinch_step)
     => /\ scroll_log'.steps = scroll_log.steps
        /\ scroll_acc' = IF Get(frame').active_count = 2 THEN scroll_acc
                         ELSE 0]_vars

\* a two-finger frame was gated under the switched profile with a remainder
\* in the accumulator
C16_Witness ==
  /\ lastEv[1] = "syn_report" /\ IsSome(frame)
  /\ Get(frame).active_count = 2
  /\ published = ProfileB
  /\ 5 * Get(frame).span >= 3 * published.thresholds.pinch_step
  /\ scroll_acc # 0

\* ---- C17 as stated (SpecScroll): the scroll steps handed to the sink so far
\* number at most |sum of the centroid-y deltas between consecutive frames|
\* / STEP_NORM + 1.
C17_StepsBoundedByNetTravel ==
  scroll_log.steps * STEP_NORM <= Abs(scroll_log.sum_dy) + STEP_NORM

\* ---- C17 as amended (SpecScroll): the scroll steps handed to the sink so
\* far number at most (sum of the |centroid-y delta| between consecutive
\* frames) / STEP_NORM + 1.
C17_StepsBoundedByTravel ==
  scroll_log.steps * STEP_NORM <= scroll_log.abs_dy + STEP_NORM

\* the centroid went down and came back, and steps went out both ways
C17_Witness ==
  /\ scroll_log.steps >= 2
  /\ scroll_log.net = 0
  /\ scroll_log.sum_dy = 0 /\ scroll_log.abs_dy > 0

\* ---------------------------------------------------------------- C18
\* C18: a failing fetch_events, scroll emit, dispatch_gesture or grab/ungrab
\* leaves the pipeline loop running (the thread has not returned, the process
\* is up), and the frame that hit the error still sets the wanted grab state
\* and becomes prev_frame.
C18_TransientErrorsKeepLoopRunning ==
  [][LET fr == on_syn_report(tracker, now).frame
     IN /\ last_err' # "none" => proc' = "running" /\ pc' \in {"drain", "apply"}
        /\ last_err' = "scroll" =>
             /\ want_grab_next' = Some(fr.active_count >= 2)
             /\ IF IsSome(gesture') THEN frame' = Some(fr)
                                    ELSE prev_frame' = Some(fr)
        /\ (IsSome(gesture) /\ gesture' = None) =>
             /\ IsSome(frame) /\ prev_frame' = frame
             /\ want_grab_next' = Some(Get(frame).active_count >= 2)
        /\ (pc = "apply" /\ grabbed' # grabbed
              /\ \E d \in DOMAIN dev_grabbed' : dev_grabbed'[d] # grabbed') =>
             proc' = "running" /\ pc' = "end"]_vars

\* every kind of call has failed: a fetch, a scroll emit, a grab (the pad is
\* taken as grabbed while the device is not) and now the dispatch of a gesture
C18_Witness ==
  /\ failed_calls = {"fetch", "scroll", "dispatch"}
  /\ last_err = "dispatch"
  /\ grabbed /\ \E d \in DOMAIN dev_grabbed : ~dev_grabbed[d]
  /\ pc = "drain" /\ IsSome(prev_frame)

\* ---------------------------------------------------------------- C19
\* the main loop takes a Reload or UseProfile message whose profile file
\* cannot be read, parsed or validated
IsRejectedReload ==
  /\ main_pc = "loop" /\ rx_req # <<>> /\ rx_req' = Tail(rx_req)
  /\ Head(rx_req).msg \in {"Reload", "UseProfile"}
  /\ load_profile(files, IF Head(rx_req).msg = "Reload" THEN cfg.active_name
                          ELSE Head(rx_req).name) = None

\* C19: a reload whose profile fails to read, parse or validate keeps the
\* last-good profile: the profile of the daemon state and the profile behind
\* the mutex are unchanged, and no update_profile is under way after it.
C19_RejectedReloadKeepsLastGood ==
  [][IsRejectedReload =>
       /\ cfg'.profile = cfg.profile
       /\ profile' = profile /\ published' = published
       /\ main_pc' = "loop"]_vars

\* a Reload was rejected because the active profile's file fails validation
\* (the daemon still runs the profile it started with), and the main loop
\* is back at its head
C19_Witness ==
  /\ "reload" \in failed_calls
  /\ files[cfg.active_name] = Some(ProfileBad)
  /\ cfg.profile = ProfileA /\ profile = ProfileA /\ published = ProfileA
  /\ main_pc = "loop" /\ rx_req = <<>>

\* ---------------------------------------------------------------- C20
\* C20: a connection whose request line is not empty is closed with a
\* response line written to it; for a line that is not JSON the response
\* carries ok = false and an error.
C20_NonEmptyLineIsAnswered ==
  (IsSome(closed) /\ Get(closed).req.line # "") =>
     /\ IsSome(Get(closed).resp)
     /\ Get(closed).req.line # "json" =>
          /\ ~Get(Get(closed).resp).ok
          /\ "error" \in DOMAIN Get(Get(closed).resp)

\* ---------------------------------------------------------------- C21
\* C21: ok:true is never the response to a `use` request whose profile
\* switch fails: once set_active has returned Err, the connection that asked
\* for the switch was not answered with ok = true.
C21_UseOkOnlyIfSwitched ==
  "set_active" \in failed_calls =>
    ~(/\ IsSome(closed)
      /\ Get(closed).req.line = "json" /\ Get(closed).req.op = "use"
      /\ IsSome(Get(closed).resp) /\ Get(Get(closed).resp).ok)

\* ---------------------------------------------------------------- C22
\* C22: the dispatch of a gesture bound to "toggle" negates the enabled flag.
C22_ToggleNegatesEnabled ==
  [][(IsFrameStep /\ IsSome(gesture')
       /\ BindingOf(profile, GestureKey(Get(gesture'))) = "toggle")
      => enabled' = ~enabled]_vars

\* ---------------------------------------------------------------- C23
\* C23: the pipeline thread holds the profile mutex only between taking the
\* thresholds clone or the binding and the end of that block: not at the sink
\* calls, not between events (where devices are grabbed and ungrabbed); so an
\* update_profile that is due while the pipeline is at a sink call or at the
\* grab block can take the mutex.
C23_MutexNotHeldAtSinkOrGrab ==
  /\ mutex = "pipe" => frame_pc \in {"th_drop", "lookup_drop"}
  /\ (frame_pc \in {"scroll", "sink", "event"} /\ main_pc = "update")
       => CanLock(mutex)

\* the main thread is inside update_profile, holding the mutex, while the
\* pipeline is about to call the sink for a gesture whose binding it has
\* looked up
C23_Witness ==
  /\ frame_pc = "sink" /\ mutex = "main" /\ main_pc = "store"
  /\ IsSome(last_dispatch) /\ Get(last_dispatch).action = "mouse:right"

\* ---------------------------------------------------------------- C24
\* C24: in every reachable tracker state, the initial one included, each
\* slot is active if and only if its tracking_id is >= 0.
C24_ActiveIffTrackingId ==
  \A i \in SlotIdx :
     tracker.slots[i].active <=> (tracker.slots[i].tracking_id >= 0)

\* ---------------------------------------------------------------- C25
\* C25: right after on_tracking_id(id), id >= 0, the addressed slot has
\* moved_norm = 0, seen_x = seen_y = false, t_first_ms = t_last_ms = now and
\* active = true, whether it was active before or not; no other slot changes.
C25_TouchdownResetsSlot ==
  [][IsTouchdownStep =>
       LET c == tracker.cur_slot
           s == tracker'.slots[c]
       IN /\ s.moved_norm = 0 /\ ~s.seen_x /\ ~s.seen_y
          /\ s.t_first_ms = now /\ s.t_last_ms = now
          /\ s.active
          /\ \A i \in SlotIdx \ {c} : tracker'.slots[i] = tracker.slots[i]]_vars

\* a touchdown at time 1 on a slot that holds a position from before
C25_Witness ==
  /\ lastEv[1] = "tracking_id" /\ lastEv[2] >= 0
  /\ LET s == tracker.slots[tracker.cur_slot]
     IN s.active /\ s.t_first_ms = 1 /\ s.x_norm > 0 /\ s.moved_norm = 0

\* ---------------------------------------------------------------- C26
\* a position event on the current slot
IsPosStep(axis) == n_events' = n_events + 1 /\ lastEv'[1] = axis

\* C26: once both baselines of a slot are set, a position event adds to
\* moved_norm the distance between the new coordinate and the previous
\* coordinate on that axis (an event at an unchanged position adds 0).
C26_MovedAddsDeltaFromPrevious ==
  [][LET c == tracker.cur_slot
         s == tracker.slots[c]
         s1 == tracker'.slots[c]
     IN (s.seen_x /\ s.seen_y) =>
          /\ IsPosStep("pos_x") =>
               s1.moved_norm = s.moved_norm + Abs(s1.x_norm - s.x_norm)
          /\ IsPosStep("pos_y") =>
               s1.moved_norm = s.moved_norm + Abs(s1.y_norm - s.y_norm)]_vars

\* ---------------------------------------------------------------- C27
\* C27: a position event that arrives while seen_x or seen_y of the slot is
\* still false sets that axis' baseline and flag and adds nothing to
\* moved_norm; so moved_norm is 0 for as long as a baseline is missing.
C27_NoMovementBeforeBaselines ==
  [][LET c == tracker.cur_slot
         s == tracker.slots[c]
         s1 == tracker'.slots[c]
     IN /\ (IsPosStep("pos_x") /\ ~(s.seen_x /\ s.seen_y)) =>
             /\ s1.moved_norm = s.moved_norm
             /\ s1.seen_x /\ s1.last_x_norm = s1.x_norm
             /\ s1.seen_y = s.seen_y /\ s1.last_y_norm = s.last_y_norm
        /\ (IsPosStep("pos_y") /\ ~(s.seen_x /\ s.seen_y)) =>
             /\ s1.moved_norm = s.moved_norm
             /\ s1.seen_y /\ s1.last_y_norm = s1.y_norm
             /\ s1.seen_x = s.seen_x /\ s1.last_x_norm = s.last_x_norm
        /\ \A i \in SlotIdx :
              ~(tracker'.slots[i].seen_x /\ tracker'.slots[i].seen_y)
                => tracker'.slots[i].moved_norm = 0]_vars

\* the first X sample of a touch lands at the far edge of a slot that holds
\* a Y position from before the touchdown: nothing is counted
C27_Witness ==
  /\ lastEv[1] = "pos_x"
  /\ LET s == tracker.slots[tracker.cur_slot]
     IN /\ s.active /\ s.seen_x /\ ~s.seen_y
        /\ s.x_norm = ONE /\ s.y_norm > 0 /\ s.moved_norm = 0

\* ---------------------------------------------------------------- C28
\* C28: after an MT_SLOT event with index i, cur_slot is 0 for i < 0, 9 for
\* i >= 10 and i otherwise; cur_slot always addresses an existing slot.
C28_CurSlotClamped ==
  /\ tracker.cur_slot \in DOMAIN tracker.slots
  /\ lastEv[1] = "slot" =>
       tracker.cur_slot = IF lastEv[2] < 0 THEN 0
                          ELSE IF lastEv[2] >= 10 THEN 9 ELSE lastEv[2]

\* a finger is down on the last slot, addressed by a slot index of 12
C28_Witness ==
  /\ tracker.cur_slot = 9
  /\ tracker.slots[9].active

\* ---------------------------------------------------------------- C29
SwipeKinds ==
  {"TwoFingerSwipeRight", "TwoFingerSwipeLeft", "TwoFingerSwipeDown",
   "TwoFingerSwipeUp"}

\* the frame of this step is a two-finger frame of a sequence that is not
\* classified yet
IsOpenTwoFingerFrame ==
  /\ IsFrameStep /\ Get(frame').active_count = 2
  /\ detector.two.armed => ~detector.two.classified

\* the start of the two-finger sequence the frame of this step belongs to:
\* the frame itself when it is the first one
StartTime == IF detector.two.armed THEN detector.two.start_time_ms
             ELSE Get(frame').timestamp_ms
StartCentroid == IF detector.two.armed THEN detector.two.start_centroid
                 ELSE Get(frame').centroid
StartSpan == IF detector.two.armed THEN detector.two.start_span
             ELSE Get(frame').span
FrameDt == Get(frame').timestamp_ms - StartTime
FrameDx == Get(frame').centroid[1] - StartCentroid[1]
FrameDy == Get(frame').centroid[2] - StartCentroid[2]
FrameDspan == Get(frame').span - StartSpan

\* C29: on an unclassified two-finger frame with dt <= swipe_max_ms, a
\* horizontal travel that is at least the vertical one and at least
\* swipe_min_dist gives SwipeRight (dx > 0) or SwipeLeft; otherwise a
\* vertical travel that is larger and at least swipe_min_dist gives SwipeDown
\* (dy > 0) or SwipeUp; no swipe is emitted on a frame with dt > swipe_max_ms.
C29_SwipeClassification ==
  [][/\ (IsOpenTwoFingerFrame /\ FrameDt <= detector.th.swipe_max_ms) =>
          IF Abs(FrameDx) >= Abs(FrameDy)
             /\ Abs(FrameDx) >= detector.th.swipe_min_dist
          THEN gesture' = Some(IF FrameDx > 0 THEN "TwoFingerSwipeRight"
                               ELSE "TwoFingerSwipeLeft")
          ELSE IF Abs(FrameDy) > Abs(FrameDx)
                  /\ Abs(FrameDy) >= detector.th.swipe_min_dist
          THEN gesture' = Some(IF FrameDy > 0 THEN "TwoFingerSwipeDown"
                               ELSE "TwoFingerSwipeUp")
          ELSE ~(IsSome(gesture') /\ Get(gesture') \in SwipeKinds)
     /\ (IsFrameStep /\ IsSome(gesture') /\ Get(gesture') \in SwipeKinds) =>
          IsOpenTwoFingerFrame /\ FrameDt <= detector.th.swipe_max_ms]_vars

\* a swipe along the diagonal: the centroid has travelled as far down as to
\* the right, and the gesture is the horizontal one
C29_Witness ==
  /\ gesture = Some("TwoFingerSwipeRight")
  /\ IsSome(frame) /\ detector.two.classified
  /\ Get(frame).centroid[1] - detector.two.start_centroid[1]
       = Get(frame).centroid[2] - detector.two.start_centroid[2]

\* ---------------------------------------------------------------- C30
\* the swipe test of this step's frame is met
SwipeMet ==
  /\ FrameDt <= detector.th.swipe_max_ms
  /\ \/ Abs(FrameDx) >= Abs(FrameDy) /\ Abs(FrameDx) >= detector.th.swipe_min_dist
     \/ Abs(FrameDy) > Abs(FrameDx) /\ Abs(FrameDy) >= detector.th.swipe_min_dist

PinchMet == Abs(FrameDspan) >= detector.th.pinch_step

\* C30: a two-finger frame that meets the swipe test and the pinch test
\* yields the swipe; a pinch is emitted exactly on the unclassified
\* two-finger frames that meet the pinch test and not the swipe test (frames
\* later than swipe_max_ms included): PinchScaleIn if the span shrank, else
\* PinchScaleOut.
C30_SwipeBeforePinch ==
  [][/\ (IsOpenTwoFingerFrame /\ SwipeMet /\ PinchMet) =>
          IsSome(gesture') /\ Get(gesture') \in SwipeKinds
     /\ (IsOpenTwoFingerFrame /\ ~SwipeMet /\ PinchMet) =>
          gesture' = Some(IF FrameDspan < 0 THEN "PinchScaleIn"
                          ELSE "PinchScaleOut")
     /\ (IsFrameStep /\ IsSome(gesture')
          /\ Get(gesture') \in {"PinchScaleIn", "PinchScaleOut"}) =>
          IsOpenTwoFingerFrame /\ ~SwipeMet /\ PinchMet]_vars

\* a swipe was emitted on a frame whose span had also changed by a pinch step
C30_Witness ==
  /\ IsSome(gesture) /\ Get(gesture) \in SwipeKinds
  /\ IsSome(frame) /\ detector.two.classified
  /\ Abs(Get(frame).span - detector.two.start_span) >= detector.th.pinch_step

\* ---------------------------------------------------------------- C31
PinchKinds == {"PinchScaleIn", "PinchScaleOut"}

\* C31: a swipe or pinch marks the two-finger episode classified; the mark
\* stays while frames have two fingers; a frame that finds the episode
\* classified yields no swipe, no pinch and no TwoFingerTap; a frame with
\* active_count # 2 ends the episode.  So an episode emits at most one swipe
\* or pinch, and after one its last frame emits no TwoFingerTap.
C31_OneClassificationPerEpisode ==
  [][IsFrameStep =>
       /\ (IsSome(gesture') /\ Get(gesture') \in SwipeKinds \cup PinchKinds)
            => (detector'.two.armed /\ detector'.two.classified)
       /\ (detector.two.armed /\ detector.two.classified) =>
            /\ ~(IsSome(gesture')
                 /\ Get(gesture') \in SwipeKinds \cup PinchKinds \cup {"TwoFingerTap"})
            /\ Get(frame').active_count = 2
                 => (detector'.two.armed /\ detector'.two.classified)
       /\ Get(frame').active_count # 2 => ~detector'.two.armed]_vars

\* a frame of a classified episode that yielded nothing, although it is as
\* far from the start as a swipe asks and its fingers pass the tap test
C31_Witness ==
  /\ lastEv[1] = "syn_report" /\ gesture = None
  /\ IsSome(frame) /\ Get(frame).active_count = 2
  /\ detector.two.armed /\ detector.two.classified
  /\ Abs(Get(frame).centroid[1] - detector.two.start_centroid[1])
       >= detector.th.swipe_min_dist
  /\ Get(frame).timestamp_ms - detector.two.start_time_ms <= detector.th.swipe_max_ms
  /\ IsSome(detector.last_two_frame)
  /\ tap_ok(detector, Get(detector.last_two_frame))

\* ---------------------------------------------------------------- C32
\* C32: a frame with three fingers that finds no three-finger start sets the
\* start to the frame's timestamp, also when the frame ends an armed
\* two-finger episode.
C32_ThreeStartSetOnThreeFingers ==
  [][(/\ IsFrameStep /\ Get(frame').active_count = 3
      /\ detector.three_start_ms = None)
     => detector'.three_start_ms = Some(Get(frame').timestamp_ms)]_vars

\* ---------------------------------------------------------------- C33
\* C33: a frame without fingers that finds a three-finger start yields
\* ThreeFingerTap exactly when the frame is at most tap_ms after the start,
\* and leaves no start behind.
C33_ZeroFrameSettlesThreeStart ==
  [][(/\ IsFrameStep /\ Get(frame').active_count = 0
      /\ IsSome(detector.three_start_ms))
     => /\ (gesture' = Some("ThreeFingerTap")) <=>
             (Get(frame').timestamp_ms - Get(detector.three_start_ms)
                <= detector.th.tap_ms)
        /\ detector'.three_start_ms = None]_vars

IsUngatedScrollStep ==
  /\ IsFrameStep /\ Get(frame').active_count = 2 /\ IsSome(prev_frame)
  /\ 5 * Abs(Get(frame').span - Get(prev_frame).span)
       < 3 * published.thresholds.pinch_step

\* scroll_acc after the centroid-y delta of this step's frame was added
AccAfterDy == scroll_acc + (Get(frame').centroid[2] - Get(prev_frame).centroid[2])

\* the wheel steps this step handed to the sink
WheelOut == scroll_log'.net - scroll_log.net

\* C34 as stated: on an ungated two-finger frame steps is
\* floor(scroll_acc / STEP_NORM); with |steps| >= 1 the sink gets -steps and
\* scroll_acc loses steps * STEP_NORM.
C34_StepsAreFloor ==
  [][IsUngatedScrollStep =>
       LET steps == AccAfterDy \div STEP_NORM
       IN IF Abs(steps) >= 1
          THEN WheelOut = -steps /\ scroll_acc' = AccAfterDy - steps * STEP_NORM
          ELSE WheelOut = 0 /\ scroll_acc' = AccAfterDy]_vars

\* C34 as amended: on an ungated two-finger frame steps is
\* scroll_acc / STEP_NORM rounded toward zero: the whole number with the
\* sign of scroll_acc and |steps| * STEP_NORM <= |scroll_acc| <
\* (|steps| + 1) * STEP_NORM; with |steps| >= 1 the sink gets -steps and
\* scroll_acc loses steps * STEP_NORM.
C34_StepsRoundTowardZero ==
  [][IsUngatedScrollStep =>
       LET steps == -WheelOut
       IN /\ steps * AccAfterDy >= 0
          /\ Abs(steps) * STEP_NORM <= Abs(AccAfterDy)
          /\ Abs(AccAfterDy) < (Abs(steps) + 1) * STEP_NORM
          /\ scroll_acc' = AccAfterDy - steps * STEP_NORM]_vars

\* steps went out upwards and left a negative remainder: the accumulator was
\* negative and no whole multiple of STEP_NORM
C34_Witness ==
  /\ lastEv[1] = "syn_report" /\ IsSome(frame) /\ Get(frame).active_count = 2
  /\ scroll_log.net > 0
  /\ scroll_acc < 0

\* ---------------------------------------------------------------- C35
\* C35: a frame with active_count # 2 leaves scroll_acc at 0, and the first
\* two-finger frame after such a frame finds scroll_acc at 0.
C35_AccZeroOutsideTwoFingers ==
  [][IsFrameStep =>
       /\ Get(frame').active_count # 2 => scroll_acc' = 0
       /\ (/\ Get(frame').active_count = 2
           /\ IsSome(prev_frame) /\ Get(prev_frame).active_count # 2)
            => scroll_acc = 0]_vars

\* a frame without two fingers, after steps went out and the travel so far
\* was no whole number of steps: what was left over is gone
C35_Witness ==
  /\ lastEv[1] = "syn_report" /\ IsSome(frame) /\ Get(frame).active_count # 2
  /\ scroll_acc = 0
  /\ scroll_log.steps >= 1
  /\ scroll_log.sum_dy + scroll_log.net * STEP_NORM # 0

\* ---------------------------------------------------------------- C37
\* C37: |scroll_acc| < STEP_NORM after every frame.
C37_AccBelowOneStep == Abs(scroll_acc) < STEP_NORM

\* a frame handed steps to the sink and kept a remainder
C37_Witness ==
  /\ lastEv[1] = "syn_report" /\ IsSome(frame) /\ Get(frame).active_count = 2
  /\ scroll_log.steps >= 2
  /\ scroll_acc > 0

\* ---------------------------------------------------------------- C38
\* the main loop takes a UseProfile message and set_active returns Err (no
\* update_profile follows)
IsFailedSetActive ==
  /\ main_pc = "loop" /\ rx_req # <<>> /\ rx_req' = Tail(rx_req)
  /\ Head(rx_req).msg = "UseProfile"
  /\ main_pc' = "loop"

\* C38: a set_active that returns Err leaves active_name, the active pointer
\* file and the loaded profile as they were.
C38_FailedSetActiveChangesNothing ==
  [][IsFailedSetActive =>
       /\ cfg'.active_name = cfg.active_name
       /\ active_ptr' = active_ptr
       /\ cfg'.profile = cfg.profile]_vars

\* ---------------------------------------------------------------- C39
\* C39: the connection closed after a `use` that was answered ok = true, if
\* it asked for the status, is answered with the profile of that `use` as
\* active_profile (the profile files are not edited, so the profile exists
\* and is valid).
C39_StatusAfterUseReportsIt ==
  [][(/\ IsSome(closed) /\ Get(closed).req.op = "use"
      /\ IsSome(Get(closed).resp) /\ Get(Get(closed).resp).ok
      /\ IsSome(closed') /\ Get(closed').req.op = "status")
     => /\ IsSome(Get(closed').resp)
        /\ Get(Get(closed').resp).active_profile = Get(closed).req.profile]_vars

\* ---------------------------------------------------------------- C40
IsPress(e) == e.key # "SYN_REPORT" /\ e.value = 1
IsRelease(e) == e.key # "SYN_REPORT" /\ e.value = 0

\* C40: when key_chord has returned, Ok or Err, the releases it sent are the
\* presses it sent in reverse order: no key is left pressed.
C40_NoKeyLeftPressed ==
  uinput.ret # "none" =>
    SelectSeq(uinput.sent, IsRelease)
      = Reverse([i \in 1 .. Len(SelectSeq(uinput.sent, IsPress)) |->
                   KeyEvent(SelectSeq(uinput.sent, IsPress)[i].key, 0)])
====
